---------------------------- MODULE Spec2Model ----------------------------
(***************************************************************************)
(* Stochastic Petri nets simulated with Gillespie's algorithm             *)
(* (snakes_spn).  The model covers the sampler and stepper of              *)
(* snakes_spn/plugin.py and the simulation runners of                      *)
(* spn_tools/run_simulation.py, on nets built as the tests build them      *)
(* (make_simple_spn) and as build_spn builds them (a part of the           *)
(* Pdn-vs-GbPdn case-study net).  The functions of the toolbox that work   *)
(* on their arguments only have specifications of their own:               *)
(* SpecAggregate and SpecAggregateSteps (aggregate_in_timeboxes, as a      *)
(* function and statement by statement), SpecLog (store_log, load_log),    *)
(* SpecDirectories (gen_directories), SpecCombos (get_all_combos of        *)
(* spn_case_study/run_grid_search.py) and SpecRestrictedDict               *)
(* (spn_tools/restricted_dict.py).                                         *)
(*                                                                         *)
(* Numbers.  Token counts and rates are integers.  A draw of the uniform   *)
(* random source is a numerator over UnitDraw (u = n / UnitDraw), and      *)
(* -ln(u) is tabulated in hundredths at those points.  Time is counted in  *)
(* units of 1 / (100 * TimeScale), with TimeScale a common multiple of     *)
(* every rate sum the model admits, so that delay = -ln(u1) / sum_rates    *)
(* and the comparisons cum_prob < u are exact; the rounding of IEEE        *)
(* doubles is not modelled.                                                *)
(***************************************************************************)
EXTENDS Integers, Sequences, FiniteSets, TLC

(* ------------------------------ bounds -------------------------------- *)

\* Largest initial token count of a place.
MaxTokens == 2

\* Largest value of max_steps passed to run_simulation.
MaxStepBudget == 2

\* Largest num_reps passed to run_repeated_experiment.
MaxReps == 2

\* Largest number of rows a log may reach in the model.
MaxRows == 3

\* Largest number of direct step() calls made between runs.
MaxDirectSteps == 1

\* Largest sum of rates for which a delay is sampled in the model.
MaxRateSum == 6

(* --------------------------- small helpers ---------------------------- *)

Range(s) == {s[i] : i \in DOMAIN s}

RECURSIVE SumSeq(_)
\* sum(enabled_rates)
SumSeq(s) == IF s = <<>> THEN 0 ELSE s[1] + SumSeq(Tail(s))

RECURSIVE Gcd(_, _)
Gcd(a, b) == IF b = 0 THEN a ELSE Gcd(b, a % b)

RECURSIVE LcmUpTo(_)
LcmUpTo(n) == IF n <= 1 THEN 1 ELSE (LcmUpTo(n - 1) * n) \div Gcd(LcmUpTo(n - 1), n)

\* Number of time units in one unit of -ln(u1)/1: a multiple of every
\* admitted rate sum.
TimeScale == LcmUpTo(MaxRateSum)

\* Optional values: <<>> is Python's None (or float("inf") for max_time),
\* <<v>> is the value v.
None == <<>>
Some(v) == <<v>>
IsNone(x) == x = <<>>
Val(x) == x[1]

(* ----------------------------- the nets ------------------------------- *)

\* A rate expression is const * product of the tokens bound to vars.
Rate(const, vars) == [const |-> const, vars |-> vars]

\* make_simple_spn: one transition moving tokens from source to sink.
make_simple_spn(num_input_tokens) ==
    [ places |-> <<"source", "sink">>,
      init   |-> [p \in {"source", "sink"} |->
                    IF p = "source" THEN <<num_input_tokens>> ELSE <<0>>],
      trans  |-> << [ name   |-> "source_to_sink",
                      inputs |-> {"source", "sink"},
                      var    |-> [p \in {"source", "sink"} |->
                                    IF p = "source" THEN "c_source"
                                    ELSE "c_sink"],
                      guard  |-> << [var |-> "c_source", min |-> 1] >>,
                      rate   |-> Rate(1, <<"source">>),
                      out    |-> [p \in {"source", "sink"} |->
                                    IF p = "source" THEN -1 ELSE 1] ] >> ]

\* get_all_places(arc_dict): the union of the read, pre and post places.
get_all_places(arc_dict) ==
    Range(arc_dict.read_arcs) \cup Range(arc_dict.pre_arcs)
        \cup Range(arc_dict.post_arcs)

\* Variant of create_guard: the last of the given places is left out.
create_guard_DropLast(place_names, var_names) ==
    [i \in 1..(Len(place_names) - 1) |->
        [var |-> var_names[place_names[i]], min |-> 1]]

\* create_guard: the conjunction "x_1>=1 and ... and x_n>=1" over the
\* variables of the given places, in their order; a conjunct is the
\* variable and the bound, and no place gives the empty text.
create_guard(place_names, var_names) ==
    [i \in 1..Len(place_names) |->
        [var |-> var_names[place_names[i]], min |-> 1]]

RECURSIVE InSomeOrder(_)
\* The elements of a set in the order a loop over the set visits them.
InSomeOrder(S) ==
    IF S = {} THEN <<>>
    ELSE LET x == CHOOSE y \in S : TRUE IN << x >> \o InSomeOrder(S \ {x})

\* The output arcs build_spn adds: var-1 on pre-arc places, var+1 on
\* post-arc places, and none on read-arc places.
BuildOutputs(arc_dict) ==
    [p \in Range(arc_dict.pre_arcs) \cup Range(arc_dict.post_arcs) |->
        IF p \in Range(arc_dict.post_arcs) THEN 1 ELSE -1]

\* build_spn: a place per name with its initial token, and per transition
\* an input arc from every connected place, the guard and the outputs.
build_spn(place_names, var_names, trans_names, rates, init_marking, trans_to_places) ==
    [ places |-> place_names,
      init   |-> [p \in Range(place_names) |-> <<init_marking[p]>>],
      trans  |-> [i \in DOMAIN trans_names |->
                    LET t == trans_names[i]
                        arc_dict == trans_to_places[t]
                    IN [ name   |-> t,
                         inputs |-> get_all_places(arc_dict),
                         var    |-> [p \in get_all_places(arc_dict) |->
                                        var_names[p]],
                         guard  |-> create_guard(
                                        InSomeOrder(get_all_places(arc_dict)),
                                        var_names),
                         rate   |-> rates[t],
                         out    |-> BuildOutputs(arc_dict) ] ] ]

\* Three transitions of the case study's TRANS_TO_PLACES.
TRANS_TO_PLACES ==
    [t \in {"prod_gba2", "decay_gba2", "cleave"} |->
        CASE t = "prod_gba2"  -> [read_arcs |-> <<>>, pre_arcs |-> <<>>,
                                  post_arcs |-> <<"gba2">>]
          [] t = "decay_gba2" -> [read_arcs |-> <<>>, pre_arcs |-> <<"gba2">>,
                                  post_arcs |-> <<>>]
          [] t = "cleave"     -> [read_arcs |-> <<"gba2">>,
                                  pre_arcs |-> <<"gbpdn">>,
                                  post_arcs |-> <<"pdn">>] ]

\* The rates of those transitions for given rate constants (0 or 1 in
\* launch_experiment): a constant production, mass-action decay and
\* mass-action cleavage.
CaseStudyRates(kprod, kdecay, kcleave) ==
    [t \in {"prod_gba2", "decay_gba2", "cleave"} |->
        CASE t = "prod_gba2"  -> Rate(kprod, <<>>)
          [] t = "decay_gba2" -> Rate(kdecay, <<"gba2">>)
          [] t = "cleave"     -> Rate(kcleave, <<"gba2", "gbpdn">>) ]

\* VARS: the variable of a place is its name after "c_".
VARS ==
    [p \in {"gba2", "gbpdn", "pdn"} |->
        CASE p = "gba2" -> "c_gba2" [] p = "gbpdn" -> "c_gbpdn"
          [] p = "pdn" -> "c_pdn"]

CaseStudyNet(kprod, kdecay, kcleave, gba2, pdn) ==
    build_spn(<<"gba2", "gbpdn", "pdn">>, VARS,
              <<"prod_gba2", "decay_gba2", "cleave">>,
              CaseStudyRates(kprod, kdecay, kcleave),
              [p \in {"gba2", "gbpdn", "pdn"} |->
                 CASE p = "gba2" -> gba2 [] p = "gbpdn" -> 1 [] OTHER -> pdn],
              TRANS_TO_PLACES)

\* The nets the model simulates.
Nets ==
    {make_simple_spn(n) : n \in 0..MaxTokens}
    \cup {CaseStudyNet(k[1], k[2], k[3], 1, pdn) :
            k \in {<<1, 1, 1>>, <<1, 0, 0>>, <<0, 1, 0>>, <<0, 0, 1>>,
                   <<0, 0, 0>>},
            pdn \in 0..1}
    \cup {CaseStudyNet(1, 1, 1, 0, 0), CaseStudyNet(1, 0, 1, 1, 1)}


(* ------------------------ the random source --------------------------- *)

\* A draw n of the random source stands for u = n / UnitDraw, so that the
\* draws 0..UnitDraw-1 cover [0, 1) with 0 included, as random.random does.
UnitDraw == 3

Draws == 0..(UnitDraw - 1)

\* math.log at the draws: -ln(n / UnitDraw) in hundredths (1.099, 0.405);
\* math.log(0) is a ValueError and has no entry.
NegLog100 == <<110, 41>>

(* ------------------------ places and markings ------------------------- *)

\* Place.get_num_tokens: the value of the single token, 0 without token.
get_num_tokens(tokens, p) == IF Len(tokens[p]) = 0 THEN 0 ELSE tokens[p][1]

\* PetriNet.get_marking: the tokens of the places that are not empty.
get_marking(tokens) == [p \in {q \in DOMAIN tokens : tokens[q] # <<>>} |-> tokens[p]]

\* PetriNet.set_marking: a place of the marking gets its tokens, every
\* other place is emptied.
set_marking(tokens, marking) ==
    [p \in DOMAIN tokens |-> IF p \in DOMAIN marking THEN marking[p] ELSE <<>>]

(* ----------------------- modes, rates, firing ------------------------- *)

\* Transition.modes: the bindings of the input variables to the tokens of
\* the input places that satisfy the guard.  A place holds at most one
\* token, so there is at most one binding; a binding is keyed by place.
modes(t, tokens) ==
    IF \A p \in t.inputs : tokens[p] # <<>>
    THEN LET binding == [p \in t.inputs |-> tokens[p][1]]
         IN  IF \A i \in DOMAIN t.guard :
                    \A p \in t.inputs :
                        t.var[p] = t.guard[i].var =>
                            binding[p] >= t.guard[i].min
             THEN <<binding>>
             ELSE <<>>
    ELSE <<>>

RECURSIVE ProdVars(_, _)
ProdVars(vars, binding) ==
    IF vars = <<>> THEN 1 ELSE binding[vars[1]] * ProdVars(Tail(vars), binding)

\* Transition.get_current_rate: the rate expression bound to the mode.
get_current_rate(t, binding) == t.rate.const * ProdVars(t.rate.vars, binding)

\* Transition.fire: the input arcs take the token of every input place,
\* the output arcs put back the value of their expression.
fire(t, mode, tokens) ==
    [p \in DOMAIN tokens |->
        IF p \in DOMAIN t.out THEN <<mode[p] + t.out[p]>>
        ELSE IF p \in t.inputs THEN <<>>
        ELSE tokens[p]]

\* self.transition(trans_name)
transition(n, trans_name) ==
    n.trans[CHOOSE i \in DOMAIN n.trans : n.trans[i].name = trans_name]

(* --------------------- sample_next_transition ------------------------- *)

RECURSIVE EnabledFrom_DropZeroRate(_, _, _)
\* Variant of EnabledFrom: a transition of rate 0 is left out.
EnabledFrom_DropZeroRate(trans, tokens, i) ==
    IF i > Len(trans) THEN <<>>
    ELSE LET m == modes(trans[i], tokens)
         IN  (IF Len(m) > 0 /\ get_current_rate(trans[i], m[1]) > 0
              THEN << [ name |-> trans[i].name,
                        mode |-> m[1],
                        rate |-> get_current_rate(trans[i], m[1]) ] >>
              ELSE <<>>) \o EnabledFrom_DropZeroRate(trans, tokens, i + 1)

RECURSIVE EnabledFrom(_, _, _)
\* The loop over trans_to_mode: the transitions with a mode, in the net's
\* order, each with its first mode and its rate on that mode.
EnabledFrom(trans, tokens, i) ==
    IF i > Len(trans) THEN <<>>
    ELSE LET m == modes(trans[i], tokens)
         IN  (IF Len(m) > 0
              THEN << [ name |-> trans[i].name,
                        mode |-> m[1],
                        rate |-> get_current_rate(trans[i], m[1]) ] >>
              ELSE <<>>) \o EnabledFrom(trans, tokens, i + 1)

Enabled(n, tokens) == EnabledFrom(n.trans, tokens, 1)

\* Variant of enabled_rates: the rates are listed in the opposite order of
\* the transitions.
enabled_rates_Reversed(enabled) == [i \in DOMAIN enabled |-> enabled[Len(enabled) + 1 - i].rate]

\* enabled_rates: the rate of every enabled transition, in the list's order.
enabled_rates(enabled) == [i \in DOMAIN enabled |-> enabled[i].rate]

RECURSIVE WalkCumProb_LessEq(_, _, _, _, _)
\* Variant of WalkCumProb: the loop goes on while cum_prob <= u.
WalkCumProb_LessEq(rates, sum_rates, u, trans_idx, cum) ==
    IF cum * UnitDraw <= u * sum_rates
    THEN IF trans_idx + 2 > Len(rates)
         THEN [trans_idx |-> -1, cum |-> cum]
         ELSE WalkCumProb_LessEq(rates, sum_rates, u, trans_idx + 1,
                                 cum + rates[trans_idx + 2])
    ELSE [trans_idx |-> trans_idx, cum |-> cum]

RECURSIVE WalkCumProb(_, _, _, _, _)
\* The while loop: trans_idx (from 0) and cum_prob as a numerator over
\* sum_rates; cum_prob < u is cum * UnitDraw < u * sum_rates.  An index past
\* the list is an IndexError (trans_idx = -1 here).
WalkCumProb(rates, sum_rates, u, trans_idx, cum) ==
    IF cum * UnitDraw < u * sum_rates
    THEN IF trans_idx + 2 > Len(rates)
         THEN [trans_idx |-> -1, cum |-> cum]
         ELSE WalkCumProb(rates, sum_rates, u, trans_idx + 1,
                          cum + rates[trans_idx + 2])
    ELSE [trans_idx |-> trans_idx, cum |-> cum]

Failure(kind, used, enabled) ==
    [ kind |-> kind, used |-> used, enabled |-> enabled,
      name |-> "", mode |-> <<>>, delay |-> 0 ]

\* The delay of a successful sample: -ln(u1) / sum_rates (line 181).
SampleDelay(u1, sum_rates) == (NegLog100[u1] * TimeScale) \div sum_rates

\* Variant of sample_next_transition: the value drawn for the delay is used
\* again to choose the transition, and no second value is drawn.
sample_next_transition_OneDraw(n, tokens, u1, u2) ==
    LET enabled == Enabled(n, tokens)
        rates == enabled_rates(enabled)
        sum_rates == SumSeq(rates)
    IN  IF Len(enabled) = 0 THEN Failure("SnakesError", 0, enabled)
        ELSE IF u1 = 0 THEN Failure("ValueError", 1, enabled)
        ELSE IF sum_rates = 0 THEN Failure("ZeroDivisionError", 1, enabled)
        ELSE LET delay == SampleDelay(u1, sum_rates)
                 w == WalkCumProb(rates, sum_rates, u1, 0, rates[1])
             IN  IF w.trans_idx = -1 THEN Failure("IndexError", 1, enabled)
                 ELSE IF ~(0 < w.cum /\ w.cum <= sum_rates)
                      THEN Failure("AssertionError", 1, enabled)
                      ELSE [ kind  |-> "ok", used |-> 1, enabled |-> enabled,
                             name  |-> enabled[w.trans_idx + 1].name,
                             mode  |-> enabled[w.trans_idx + 1].mode,
                             delay |-> delay ]

\* sample_next_transition with the next two values of the random source,
\* u1 and u2: the outcome (kind "ok" or the exception raised), the number
\* of values drawn, the list of enabled transitions it built, and on
\* success the name, the mode and the delay.
sample_next_transition(n, tokens, u1, u2) ==
    LET enabled == Enabled(n, tokens)
        rates == enabled_rates(enabled)
        sum_rates == SumSeq(rates)
    IN  IF Len(enabled) = 0 THEN Failure("SnakesError", 0, enabled)
        ELSE IF u1 = 0 THEN Failure("ValueError", 1, enabled)
        ELSE IF sum_rates = 0 THEN Failure("ZeroDivisionError", 1, enabled)
        ELSE LET delay == SampleDelay(u1, sum_rates)
                 w == WalkCumProb(rates, sum_rates, u2, 0, rates[1])
             IN  IF w.trans_idx = -1 THEN Failure("IndexError", 2, enabled)
                 ELSE IF ~(0 < w.cum /\ w.cum <= sum_rates)
                      THEN Failure("AssertionError", 2, enabled)
                      ELSE [ kind  |-> "ok", used |-> 2, enabled |-> enabled,
                             name  |-> enabled[w.trans_idx + 1].name,
                             mode  |-> enabled[w.trans_idx + 1].mode,
                             delay |-> delay ]

(* ------------------------------- step --------------------------------- *)

\* Variant of step: every exception of the sampler is turned into None.
step_CatchAll(n, tokens, u1, u2) ==
    LET s == sample_next_transition(n, tokens, u1, u2)
    IN  IF s.kind = "ok"
        THEN [ outcome |-> "delay", ret |-> Some(s.delay), sample |-> s,
               tokens |-> fire(transition(n, s.name), s.mode, tokens) ]
        ELSE [ outcome |-> "None", ret |-> None, sample |-> s,
               tokens |-> tokens ]

\* PetriNet.step: sample, fire, return the delay; a SnakesError becomes
\* the return value None, any other exception propagates.
step(n, tokens, u1, u2) ==
    LET s == sample_next_transition(n, tokens, u1, u2)
    IN  CASE s.kind = "ok" ->
               [ outcome |-> "delay", ret |-> Some(s.delay), sample |-> s,
                 tokens |-> fire(transition(n, s.name), s.mode, tokens) ]
          [] s.kind = "SnakesError" ->
               [ outcome |-> "None", ret |-> None, sample |-> s,
                 tokens |-> tokens ]
          [] OTHER ->
               [ outcome |-> "raised", ret |-> None, sample |-> s,
                 tokens |-> tokens ]

(* ------------------------------ state --------------------------------- *)

VARIABLES
    net,               \* the net being simulated (its structure)
    tokens,            \* the marking: the tokens of every place
    pc,                \* where the calling program is
    caller,            \* who called run_simulation: "user" or "repeated"
    max_steps,         \* run_simulation: argument (None or a number)
    max_time,          \* run_simulation: argument (None is float("inf"))
    log,               \* run_simulation: series name -> list of values
    passed_time,       \* run_simulation: local, None after a dead step
    current_timestamp, \* run_simulation: local
    remaining_steps,   \* run_simulation: local
    broke,             \* run_simulation: the loop was left by break
    num_reps,          \* run_repeated_experiment: argument
    init_marking,      \* run_repeated_experiment: local
    run,               \* run_repeated_experiment: loop variable
    run_to_log,        \* run_repeated_experiment: run -> log
    last,              \* the latest call of step / sample_next_transition
    start_tokens,      \* history: the marking when run_simulation was called
    call_tokens,       \* history: the marking when the top-level call was made
    fired,             \* history: fire() calls since run_simulation was called
    iters,             \* history: loop iterations since run_simulation was called
    direct,            \* history: number of direct step() calls
    fn,                \* the function of the toolbox that was called, if any
    args,              \* the arguments of that call
    result,            \* what that call returned
    file               \* the JSON file at filepath: None or its content

\* The call of a function of the toolbox that works on its arguments only.
fnVars == << fn, args, result, file >>

\* The net, the program simulating it and the history of the simulation.
simVars == << net, tokens, pc, caller, max_steps, max_time, log, passed_time,
              current_timestamp, remaining_steps, broke, num_reps,
              init_marking, run, run_to_log, last, start_tokens, call_tokens,
              fired, iters, direct >>

vars == << simVars, fnVars >>

runVars == << max_steps, max_time, log, passed_time, current_timestamp,
              remaining_steps, broke, start_tokens, fired, iters >>

repVars == << num_reps, init_marking, run, run_to_log >>

\* The record of a call: the operation, the marking before and after, the
\* two values the random source held ready, and what the call did.
Call(op, pre, post, u1, u2, outcome, ret, sample) ==
    [ op |-> op, pre |-> pre, post |-> post, u1 |-> u1, u2 |-> u2,
      outcome |-> outcome, ret |-> ret, sample |-> sample ]

NoCall == Call("none", <<>>, <<>>, 0, 0, "none", None, Failure("none", 0, <<>>))

EmptyLog == [k \in {} |-> <<>>]

\* The arguments the model passes.
StepBudgets == {None} \cup {Some(n) : n \in 0..MaxStepBudget}

TimeBudgets == {None, Some(0), Some(50 * TimeScale)}

\* No function of the toolbox has been called.
NoFunctionCalled ==
    /\ fn = "none"
    /\ args = <<>>
    /\ result = <<>>
    /\ file = None

\* The net n as constructed, with no simulation under way.
Constructed(n) ==
    /\ net = n
    /\ tokens = net.init
    /\ pc = "idle"
    /\ caller = "user"
    /\ max_steps = None
    /\ max_time = None
    /\ log = EmptyLog
    /\ passed_time = Some(0)
    /\ current_timestamp = 0
    /\ remaining_steps = 0
    /\ broke = FALSE
    /\ num_reps = 0
    /\ init_marking = <<>>
    /\ run = 0
    /\ run_to_log = EmptyLog
    /\ last = NoCall
    /\ start_tokens = tokens
    /\ call_tokens = tokens
    /\ fired = 0
    /\ iters = 0
    /\ direct = 0

Init ==
    /\ \E n \in Nets : Constructed(n)
    /\ NoFunctionCalled

(* ------------------------- direct calls ------------------------------- *)

\* The rate sum of the marking is one the time scale divides exactly.
RateSumAdmitted(tk) == SumSeq(enabled_rates(Enabled(net, tk))) <= MaxRateSum

\* A caller calls sample_next_transition(rng) on the net.
SampleCall(u1, u2) ==
    /\ pc = "idle"
    /\ RateSumAdmitted(tokens)
    /\ UNCHANGED << fnVars, net, tokens, pc, caller, runVars, repVars, call_tokens,
                    direct >>
    /\ LET s == sample_next_transition(net, tokens, u1, u2)
       IN  last' = Call("sample", tokens, tokens', u1, u2,
                        IF s.kind = "ok" THEN "returned" ELSE "raised",
                        None, s)

\* A caller calls step(rng) on the net.
StepCall(u1, u2) ==
    /\ pc = "idle"
    /\ direct < MaxDirectSteps
    /\ RateSumAdmitted(tokens)
    /\ LET r == step(net, tokens, u1, u2)
       IN  /\ tokens' = r.tokens
           /\ last' = Call("step", tokens, tokens', u1, u2, r.outcome, r.ret,
                        r.sample)
    /\ direct' = direct + 1
    /\ UNCHANGED << fnVars, net, pc, caller, runVars, repVars, call_tokens >>

(* --------------------------- run_simulation --------------------------- *)

\* Lines 149-159: the empty series and the locals.
NewLog(n) == [k \in Range(n.places) \cup {"time"} |-> <<>>]

InitialRemaining(ms) == IF ~IsNone(ms) THEN Val(ms) ELSE 1

RECURSIVE AppendPlaces(_, _, _)
\* for place in places: log[place.name].append(place.get_num_tokens())
AppendPlaces(lg, places, tk) ==
    IF places = <<>> THEN lg
    ELSE AppendPlaces(
            [lg EXCEPT ![places[1]] = Append(@, get_num_tokens(tk, places[1]))],
            Tail(places), tk)

\* Variant of AppendRow: the timestamp is not appended.
AppendRow_NoTime(lg, n, timestamp, tk) == AppendPlaces(lg, n.places, tk)

\* Lines 166-168: one row appended to every series.
AppendRow(lg, n, timestamp, tk) ==
    AppendPlaces([lg EXCEPT !["time"] = Append(@, timestamp)], n.places, tk)

\* Variant of DecrementSteps: the budget is never decremented.
DecrementSteps_Never(ms, remaining) == remaining

\* Lines 162-163: the budget is decremented when max_steps is given.
DecrementSteps(ms, remaining) ==
    IF ~IsNone(ms) THEN remaining - 1 ELSE remaining

\* Variant of AddPassedTime: the delay replaces the timestamp.
AddPassedTime_Assign(timestamp, passed) == Val(passed)

\* Line 165: current_timestamp += passed_time
AddPassedTime(timestamp, passed) == timestamp + Val(passed)

\* Variant of TimeReached: a strict comparison.
TimeReached_Strict(timestamp, mt) == ~IsNone(mt) /\ timestamp > Val(mt)

\* current_timestamp >= max_time
TimeReached(timestamp, mt) == ~IsNone(mt) /\ timestamp >= Val(mt)

\* The entry of run_simulation, shared by a direct call and by a
\* repetition of run_repeated_experiment.
EnterRunSimulation(tk, ms, mt) ==
    /\ max_steps' = ms
    /\ max_time' = mt
    /\ log' = NewLog(net)
    /\ passed_time' = Some(0)
    /\ current_timestamp' = 0
    /\ remaining_steps' = InitialRemaining(ms)
    /\ broke' = FALSE
    /\ start_tokens' = tk
    /\ fired' = 0
    /\ iters' = 0
    /\ pc' = "loop"

\* A caller calls run_simulation(spn, max_steps, max_time).
RunSimulationCall(ms, mt) ==
    /\ pc = "idle"
    /\ EnterRunSimulation(tokens, ms, mt)
    /\ caller' = "user"
    /\ call_tokens' = tokens
    /\ UNCHANGED << fnVars, net, tokens, repVars, last, direct >>

\* One iteration of the while loop (lines 161-172).
LoopIteration(u1, u2) ==
    /\ pc = "loop"
    /\ ~broke
    /\ remaining_steps > 0
    /\ Len(log["time"]) < MaxRows
    /\ RateSumAdmitted(tokens)
    /\ LET timestamp == AddPassedTime(current_timestamp, passed_time)
           r == step(net, tokens, u1, u2)
       IN  /\ remaining_steps' = DecrementSteps(max_steps, remaining_steps)
           /\ current_timestamp' = timestamp
           /\ log' = AppendRow(log, net, timestamp, tokens)
           /\ tokens' = r.tokens
           /\ last' = Call("step", tokens, tokens', u1, u2, r.outcome, r.ret,
                        r.sample)
           /\ passed_time' = r.ret
           /\ fired' = IF r.outcome = "delay" THEN fired + 1 ELSE fired
           /\ iters' = iters + 1
           /\ IF r.outcome = "raised"
              THEN /\ pc' = "raised"
                   /\ broke' = broke
              ELSE /\ pc' = pc
                   /\ broke' = (IsNone(r.ret) \/ TimeReached(timestamp, max_time))
    /\ UNCHANGED << fnVars, net, caller, max_steps, max_time, repVars, start_tokens,
                    call_tokens, direct >>

\* The loop is left (by break or by its condition) and the log returned:
\* to the caller, or to run_repeated_experiment, which stores it under the
\* repetition's index (lines 104-105).
RunSimulationReturn ==
    /\ pc = "loop"
    /\ broke \/ remaining_steps <= 0
    /\ IF caller = "user"
       THEN /\ pc' = "returned"
            /\ UNCHANGED << run, run_to_log >>
       ELSE /\ pc' = "rep"
            /\ run_to_log' = [r \in DOMAIN run_to_log \cup {run} |->
                                IF r = run THEN log ELSE run_to_log[r]]
            /\ run' = run + 1
    /\ UNCHANGED << fnVars, net, tokens, caller, runVars, num_reps, init_marking,
                    last, call_tokens, direct >>

(* ----------------------- run_repeated_experiment ---------------------- *)

\* The nets the model repeats experiments on: the nets of make_simple_spn.
RepeatedNets == {make_simple_spn(n) : n \in 0..MaxTokens}

\* A caller calls run_repeated_experiment(num_reps, spn, max_steps,
\* max_time): lines 98-101.
RepeatedCall(n, ms, mt) ==
    /\ pc = "idle"
    /\ net \in RepeatedNets
    /\ num_reps' = n
    /\ max_steps' = ms
    /\ max_time' = mt
    /\ init_marking' = get_marking(tokens)
    /\ run_to_log' = EmptyLog
    /\ run' = 0
    /\ call_tokens' = tokens
    /\ pc' = "rep"
    /\ UNCHANGED << fnVars, net, tokens, caller, log, passed_time, current_timestamp,
                    remaining_steps, broke, last, start_tokens, fired, iters,
                    direct >>

\* The next repetition: the marking is reset and run_simulation called
\* (lines 102-104).
RepeatedNext ==
    /\ pc = "rep"
    /\ run < num_reps
    /\ tokens' = set_marking(tokens, init_marking)
    /\ EnterRunSimulation(set_marking(tokens, init_marking), max_steps, max_time)
    /\ caller' = "repeated"
    /\ UNCHANGED << fnVars, net, repVars, last, call_tokens, direct >>

\* Variant of RepeatedReturn: the marking is reset once more on return.
RepeatedReturn_Reset ==
    /\ pc = "rep"
    /\ run >= num_reps
    /\ pc' = "rep_returned"
    /\ tokens' = set_marking(tokens, init_marking)
    /\ UNCHANGED << fnVars, net, caller, runVars, repVars, last, call_tokens,
                    direct >>

\* All repetitions are done: run_to_log is returned (line 109).
RepeatedReturn ==
    /\ pc = "rep"
    /\ run >= num_reps
    /\ pc' = "rep_returned"
    /\ UNCHANGED << fnVars, net, tokens, caller, runVars, repVars, last, call_tokens,
                    direct >>

Next ==
    \/ \E u1 \in Draws, u2 \in Draws : SampleCall(u1, u2)
    \/ \E u1 \in Draws, u2 \in Draws : StepCall(u1, u2)
    \/ \E ms \in StepBudgets, mt \in TimeBudgets : RunSimulationCall(ms, mt)
    \/ \E u1 \in Draws, u2 \in Draws : LoopIteration(u1, u2)
    \/ RunSimulationReturn
    \/ \E n \in 0..MaxReps, ms \in StepBudgets, mt \in TimeBudgets :
          RepeatedCall(n, ms, mt)
    \/ RepeatedNext
    \/ RepeatedReturn

Spec == Init /\ [][Next]_vars

(* ---------------------- aggregate_in_timeboxes ------------------------ *)

\* Most measurements passed to aggregate_in_timeboxes.
MaxMeasurements == 3

\* Largest timestamp of a measurement.
MaxTimestamp == 4

\* Largest num_timeboxes.
MaxTimeboxes == 3

\* The values of the measurements and the sizes of a timebox (timestamps
\* and sizes are counted in one unit, tenths in the cases of the tests).
MeasurementValues == {0, 1, 3}

TimeboxSizes == {1, 2}

\* A number of the output is a fraction <<numerator, denominator>> in
\* lowest terms, so that sum / num_points_added is exact.
Frac(n, d) == << n \div Gcd(n, d), d \div Gcd(n, d) >>

FracOfInt(n) == << n, 1 >>

\* output[curr_timebox] += measurements[i]
FracAddInt(f, m) == Frac(f[1] + m * f[2], f[2])

\* Variant of FracDivInt: the sum is not divided.
FracDivInt_NoDivision(f, k) == f

\* output[curr_timebox] / num_points_added
FracDivInt(f, k) == Frac(f[1], f[2] * k)

\* Variant of agg_curr_timebox: an empty box after the first is set to 0.
agg_curr_timebox_ZeroWhenEmpty(output, curr_timebox, num_points_added) ==
    IF num_points_added = 0
    THEN [output EXCEPT ![curr_timebox + 1] = FracOfInt(0)]
    ELSE [output EXCEPT ![curr_timebox + 1] =
                FracDivInt(output[curr_timebox + 1], num_points_added)]

\* __agg_curr_timebox (boxes are counted from 0, sequences from 1).
agg_curr_timebox(output, curr_timebox, num_points_added) ==
    IF num_points_added = 0 /\ curr_timebox = 0
    THEN [output EXCEPT ![curr_timebox + 1] = FracOfInt(0)]
    ELSE IF num_points_added = 0
    THEN [output EXCEPT ![curr_timebox + 1] = output[curr_timebox]]
    ELSE IF num_points_added > 0
    THEN [output EXCEPT ![curr_timebox + 1] =
                FracDivInt(output[curr_timebox + 1], num_points_added)]
    ELSE output

\* timebox_endtimes[curr_timebox]
timebox_endtime(curr_timebox, timebox_size) == (curr_timebox + 1) * timebox_size

\* Variant of CloseTimeboxes: a timestamp on a boundary stays in the
\* earlier box.
RECURSIVE CloseTimeboxes_Strict(_, _, _, _, _, _)
CloseTimeboxes_Strict(output, curr_timebox, num_points_added, timestamp, num_timeboxes, timebox_size) ==
    IF timestamp > timebox_endtime(curr_timebox, timebox_size)
    THEN LET closed == agg_curr_timebox(output, curr_timebox, num_points_added)
         IN  IF curr_timebox + 1 >= num_timeboxes
             THEN [ returned |-> TRUE, output |-> closed,
                    curr_timebox |-> curr_timebox + 1, num_points_added |-> 0 ]
             ELSE CloseTimeboxes_Strict(closed, curr_timebox + 1, 0, timestamp,
                                        num_timeboxes, timebox_size)
    ELSE [ returned |-> FALSE, output |-> output,
           curr_timebox |-> curr_timebox,
           num_points_added |-> num_points_added ]

\* The while loop of lines 426-433: the boxes that end at or before the
\* timestamp are closed; the function returns when there is no box left.
RECURSIVE CloseTimeboxes(_, _, _, _, _, _)
CloseTimeboxes(output, curr_timebox, num_points_added, timestamp, num_timeboxes, timebox_size) ==
    IF timestamp >= timebox_endtime(curr_timebox, timebox_size)
    THEN LET closed == agg_curr_timebox(output, curr_timebox, num_points_added)
         IN  IF curr_timebox + 1 >= num_timeboxes
             THEN [ returned |-> TRUE, output |-> closed,
                    curr_timebox |-> curr_timebox + 1, num_points_added |-> 0 ]
             ELSE CloseTimeboxes(closed, curr_timebox + 1, 0, timestamp,
                                 num_timeboxes, timebox_size)
    ELSE [ returned |-> FALSE, output |-> output,
           curr_timebox |-> curr_timebox,
           num_points_added |-> num_points_added ]

\* Variant of FillRemaining: the boxes after the last measurement's are
\* left at 0.
FillRemaining_Never(output, curr_timebox, num_timeboxes) == output

\* Lines 440-442: unless the current box is the last one, every box from
\* the current one on gets the current box's value.
FillRemaining(output, curr_timebox, num_timeboxes) ==
    IF curr_timebox # num_timeboxes - 1
    THEN [j \in 1..num_timeboxes |->
            IF j - 1 >= curr_timebox THEN output[curr_timebox + 1]
            ELSE output[j]]
    ELSE output

\* Variant of AggregateFrom: when no box is left the output is returned as
\* it was before the current box was closed.
RECURSIVE AggregateFrom_ReturnUnresolved(_, _, _, _, _, _, _, _)
AggregateFrom_ReturnUnresolved(timestamps, measurements, num_timeboxes, timebox_size, i, output, curr_timebox, num_points_added) ==
    IF i > Len(measurements)
    THEN FillRemaining(
            agg_curr_timebox(output, curr_timebox, num_points_added),
            curr_timebox, num_timeboxes)
    ELSE LET w == CloseTimeboxes(output, curr_timebox, num_points_added,
                                 timestamps[i], num_timeboxes, timebox_size)
         IN  IF w.returned THEN output
             ELSE AggregateFrom_ReturnUnresolved(
                    timestamps, measurements, num_timeboxes, timebox_size,
                    i + 1,
                    [w.output EXCEPT ![w.curr_timebox + 1] =
                        FracAddInt(@, measurements[i])],
                    w.curr_timebox, w.num_points_added + 1)

\* The for loop of lines 425-436 from measurement i (from 1) on, and the
\* lines after it.
RECURSIVE AggregateFrom(_, _, _, _, _, _, _, _)
AggregateFrom(timestamps, measurements, num_timeboxes, timebox_size, i, output, curr_timebox, num_points_added) ==
    IF i > Len(measurements)
    THEN FillRemaining(
            agg_curr_timebox(output, curr_timebox, num_points_added),
            curr_timebox, num_timeboxes)
    ELSE LET w == CloseTimeboxes(output, curr_timebox, num_points_added,
                                 timestamps[i], num_timeboxes, timebox_size)
         IN  IF w.returned THEN w.output
             ELSE AggregateFrom(
                    timestamps, measurements, num_timeboxes, timebox_size,
                    i + 1,
                    [w.output EXCEPT ![w.curr_timebox + 1] =
                        FracAddInt(@, measurements[i])],
                    w.curr_timebox, w.num_points_added + 1)

\* aggregate_in_timeboxes: the output list, or the failed assertion on the
\* lengths.
aggregate_in_timeboxes(timestamps, measurements, num_timeboxes, timebox_size) ==
    IF Len(measurements) # Len(timestamps) THEN "AssertionError"
    ELSE AggregateFrom(timestamps, measurements, num_timeboxes, timebox_size,
                       1, [j \in 1..num_timeboxes |-> FracOfInt(0)], 0, 0)

\* The arguments of a call of aggregate_in_timeboxes.
AggArgs(timestamps, measurements, num_timeboxes, timebox_size) ==
    [ timestamps |-> timestamps, measurements |-> measurements,
      num_timeboxes |-> num_timeboxes, timebox_size |-> timebox_size ]

\* The sequences over S of length n.
SeqsOfLen(S, n) == [1..n -> S]

Ascending(s) == \A i \in 1..(Len(s) - 1) : s[i] <= s[i + 1]

\* The two calls of AggregateInTimeboxesTestCase, in tenths.
NoValsForFirstBoxes ==
    AggArgs(<<10, 11, 12, 21, 22, 27, 30>>, <<3, 4, 6, 7, 8, 9, 10>>, 7, 5)

NoValsLastBoxes ==
    AggArgs(<<3, 7, 9, 11>>, <<1, 2, 3, 4>>, 7, 5)

\* The calls the model makes: ascending timestamps with as many
\* measurements, and the two calls of the tests.
AggInputs ==
    { AggArgs(ts, ms, n, size) :
        ts \in { s \in UNION { SeqsOfLen(0..MaxTimestamp, l) :
                                l \in 0..MaxMeasurements } : Ascending(s) },
        ms \in UNION { SeqsOfLen(MeasurementValues, l) :
                                l \in 0..MaxMeasurements },
        n \in 1..MaxTimeboxes, size \in TimeboxSizes }
    \cup {NoValsForFirstBoxes, NoValsLastBoxes}

\* A caller holds the arguments of a call of aggregate_in_timeboxes.
InitAggregate ==
    /\ Constructed(make_simple_spn(0))
    /\ fn = "none"
    /\ args \in {a \in AggInputs : Len(a.timestamps) = Len(a.measurements)}
    /\ result = <<>>
    /\ file = None

\* The call of aggregate_in_timeboxes.
AggregateCall ==
    /\ fn = "none"
    /\ fn' = "aggregate_in_timeboxes"
    /\ result' = aggregate_in_timeboxes(args.timestamps, args.measurements,
                                        args.num_timeboxes, args.timebox_size)
    /\ UNCHANGED << simVars, args, file >>

NextAggregate == AggregateCall

SpecAggregate == InitAggregate /\ [][NextAggregate]_vars

(* ------------------------ store_log and load_log ---------------------- *)

\* Largest repetition index used as a key of a log.
MaxKey == 11

\* Most top-level entries of a stored dictionary or of a JSON file.
MaxEntries == 2

\* Most characters of a top-level key of a JSON file that was not written
\* by store_log.
MaxKeyLen == 2

\* A text is a sequence of characters (strings of length one).
Digits == {"0", "1", "2", "3", "4", "5", "6", "7", "8", "9"}

Letters == {"a", "b", "f", "g"}

DigitChars == <<"0", "1", "2", "3", "4", "5", "6", "7", "8", "9">>

DigitChar(d) == DigitChars[d + 1]

DigitValue(c) == (CHOOSE i \in DOMAIN DigitChars : DigitChars[i] = c) - 1

\* The order of the characters (their code points): digits before letters.
CharCode(c) ==
    IF c \in Digits THEN DigitValue(c)
    ELSE CASE c = "a" -> 10 [] c = "b" -> 11 [] c = "f" -> 12 [] c = "g" -> 13

RECURSIVE IntToText(_)
\* str(n) for n >= 0, as json.dump writes an integer key.
IntToText(n) ==
    IF n < 10 THEN << DigitChar(n) >>
    ELSE IntToText(n \div 10) \o << DigitChar(n % 10) >>

RECURSIVE DecimalValue(_)
DecimalValue(text) ==
    IF text = <<>> THEN 0
    ELSE DecimalValue(SubSeq(text, 1, Len(text) - 1)) * 10
            + DigitValue(text[Len(text)])

\* A key of a Python dictionary is an int or a str.
IntKey(n) == << "int", n >>

StrKey(text) == << "str", text >>

\* The names bound where load_log evaluates a key (its locals among them)
\* that the characters of the model can spell.
ScopeNames == { <<"f">> }

\* eval(key) for a key of digits and letters: a decimal literal is an int
\* (leading zeros are a SyntaxError unless the literal is all zeros), an
\* identifier is the object bound to it or a NameError, anything else is a
\* SyntaxError.
EvalKey(text) ==
    IF \A i \in DOMAIN text : text[i] \in Digits
    THEN IF Len(text) = 1 \/ text[1] # "0"
            \/ \A i \in DOMAIN text : text[i] = "0"
         THEN [kind |-> "int", value |-> DecimalValue(text)]
         ELSE [kind |-> "SyntaxError", value |-> 0]
    ELSE IF text[1] \in Letters
         THEN IF text \in ScopeNames
              THEN [kind |-> "object", value |-> 0]
              ELSE [kind |-> "NameError", value |-> 0]
         ELSE [kind |-> "SyntaxError", value |-> 0]

\* Python values and the JSON values json.dump writes for them: a value is
\* tagged with its type, the elements of a list and the values of a nested
\* dictionary (a record, its keys are text) are numbers.
JsonEncode(v) ==
    CASE v[1] = "int"  -> << "number", v[2] >>
      [] v[1] = "str"  -> << "string", v[2] >>
      [] v[1] = "list" -> << "array", v[2] >>
      [] v[1] = "dict" -> << "object", v[2] >>

\* The Python value json.load builds for a JSON value.
JsonDecode(j) ==
    CASE j[1] = "number" -> << "int", j[2] >>
      [] j[1] = "string" -> << "str", j[2] >>
      [] j[1] = "array"  -> << "list", j[2] >>
      [] j[1] = "object" -> << "dict", j[2] >>

\* Dictionaries are functions from keys to values.
EmptyDict == [k \in {} |-> <<>>]

DictPut(d, k, v) == [x \in DOMAIN d \cup {k} |-> IF x = k THEN v ELSE d[x]]

DictDel(d, k) == [x \in DOMAIN d \ {k} |-> d[x]]

RECURSIVE TextLess(_, _)
\* a < b for two texts, as Python compares str.
TextLess(a, b) ==
    IF b = <<>> THEN FALSE
    ELSE IF a = <<>> THEN TRUE
    ELSE IF a[1] # b[1] THEN CharCode(a[1]) < CharCode(b[1])
    ELSE TextLess(Tail(a), Tail(b))

\* a < b for two keys of one type.
KeyLess(a, b) == IF a[1] = "int" THEN a[2] < b[2] ELSE TextLess(a[2], b[2])

RECURSIVE SortedKeys(_)
\* sorted(keys) for keys of one type.
SortedKeys(K) ==
    IF K = {} THEN <<>>
    ELSE LET least == CHOOSE k \in K : \A o \in K \ {k} : KeyLess(k, o)
         IN  << least >> \o SortedKeys(K \ {least})

\* The text json.dump writes for a key.
KeyText(k) == IF k[1] = "int" THEN IntToText(k[2]) ELSE k[2]

\* Variant of json_dump: an integer key is written by its last digit only.
json_dump_LastDigit(d) ==
    IF \E a \in DOMAIN d, b \in DOMAIN d : a[1] # b[1]
    THEN [kind |-> "TypeError", entries |-> <<>>]
    ELSE LET keys == SortedKeys(DOMAIN d)
         IN  [ kind |-> "ok",
               entries |-> [i \in DOMAIN keys |->
                    [ key |-> IF keys[i][1] = "int"
                              THEN IntToText(keys[i][2] % 10)
                              ELSE keys[i][2],
                      value |-> JsonEncode(d[keys[i]]) ]] ]

\* json.dump(log, f, sort_keys=True): the entries of the top-level object
\* in the order of the sorted keys, every key as text; keys of different
\* types cannot be sorted (TypeError).
json_dump(d) ==
    IF \E a \in DOMAIN d, b \in DOMAIN d : a[1] # b[1]
    THEN [kind |-> "TypeError", entries |-> <<>>]
    ELSE LET keys == SortedKeys(DOMAIN d)
         IN  [ kind |-> "ok",
               entries |-> [i \in DOMAIN keys |->
                    [ key |-> KeyText(keys[i]),
                      value |-> JsonEncode(d[keys[i]]) ]] ]

RECURSIVE JsonLoadFrom(_, _, _)
JsonLoadFrom(entries, i, d) ==
    IF i > Len(entries) THEN d
    ELSE JsonLoadFrom(entries, i + 1,
            DictPut(d, StrKey(entries[i].key), JsonDecode(entries[i].value)))

\* json.load(f): the dictionary of the top-level object, its keys text.
json_load(entries) == JsonLoadFrom(entries, 1, EmptyDict)

RECURSIVE OldKeysFrom(_, _)
\* tuple(log.keys()): the keys in the order of their first entry.
OldKeysFrom(entries, i) ==
    IF i > Len(entries) THEN <<>>
    ELSE (IF \E j \in 1..(i - 1) : entries[j].key = entries[i].key
          THEN <<>> ELSE << entries[i].key >>) \o OldKeysFrom(entries, i + 1)

RECURSIVE ConvertKeys(_, _, _)
\* The loop of lines 230-233 from the i-th key on.
ConvertKeys(log_, old_keys, i) ==
    IF i > Len(old_keys) THEN [kind |-> "ok", log |-> log_]
    ELSE LET key == old_keys[i]
             e == EvalKey(key)
         IN  IF e.kind \in {"NameError", "SyntaxError"}
             THEN [kind |-> e.kind, log |-> EmptyDict]
             ELSE IF e.kind = "int"
             THEN ConvertKeys(
                    DictDel(DictPut(log_, IntKey(e.value), log_[StrKey(key)]),
                            StrKey(key)),
                    old_keys, i + 1)
             ELSE ConvertKeys(log_, old_keys, i + 1)

\* load_log(filepath) on a file with the given entries: the dictionary
\* returned, or the exception raised by eval.
load_log(entries) ==
    ConvertKeys(json_load(entries), OldKeysFrom(entries, 1), 1)

\* The values stored under a top-level key: those of StoreLogTestCase and
\* the log of a run.
LogValues ==
    { << "dict", [a |-> 2, b |-> 4] >>,
      << "list", <<1, 2, 3>> >>,
      << "str", "Hello world!" >>,
      << "dict", [time |-> <<0, 5>>, source |-> <<1, 0>>, sink |-> <<0, 1>>] >> }

\* The dictionaries with at most MaxEntries keys of K and values of V.
DictsOver(K, V) ==
    UNION { [S -> V] : S \in {T \in SUBSET K : Cardinality(T) <= MaxEntries} }

\* Collections of runs: the keys are repetition indices.
RunCollections == DictsOver({IntKey(n) : n \in 0..MaxKey}, LogValues)

\* The name of a place of the case study, a name bound in load_log and
\* another name.
NameKeys == { <<"g", "b", "a", "2">>, <<"f">>, <<"a", "b">> }

\* Hyperparameters as run_experiment stores them: rates (text) and initial
\* token counts under the names of transitions and places.
Hyperparameters ==
    DictsOver({StrKey(t) : t \in NameKeys}, { <<"str", "0">>, <<"int", 1>> })
        \ {EmptyDict}

\* The characters of the keys of the files not written by store_log.
KeyAlphabet == {"0", "1", "a"}

FileKeys ==
    UNION { SeqsOfLen(KeyAlphabet, l) : l \in 1..MaxKeyLen } \cup NameKeys

\* JSON files with distinct keys, the i-th entry holding the number i.
GivenFiles ==
    { [i \in DOMAIN ks |-> [key |-> ks[i], value |-> << "number", i >>]] :
        ks \in { s \in UNION { SeqsOfLen(FileKeys, l) : l \in 0..MaxEntries } :
                    \A i \in DOMAIN s, j \in DOMAIN s : i # j => s[i] # s[j] } }

\* A caller holds a dictionary to store, or there is a JSON file to load.
InitLog ==
    /\ Constructed(make_simple_spn(0))
    /\ fn = "none"
    /\ result = <<>>
    /\ \/ /\ args \in {[log |-> Some(d)] : d \in RunCollections \cup Hyperparameters}
          /\ file = None
       \/ /\ args = [log |-> None]
          /\ file \in {Some(entries) : entries \in GivenFiles}

\* store_log(log, filepath), lines 193-194 (the directories of the path
\* are not modelled).
StoreLogCall ==
    /\ fn = "none"
    /\ ~IsNone(args.log)
    /\ fn' = "store_log"
    /\ file' = Some(json_dump(Val(args.log)).entries)
    /\ result' = [kind |-> json_dump(Val(args.log)).kind, log |-> EmptyDict]
    /\ UNCHANGED << simVars, args >>

\* load_log(filepath) on the file that was stored, or on the file given.
LoadLogCall ==
    /\ fn = IF IsNone(args.log) THEN "none" ELSE "store_log"
    /\ ~IsNone(file)
    /\ fn' = "load_log"
    /\ result' = load_log(Val(file))
    /\ UNCHANGED << simVars, args, file >>

NextLog ==
    \/ StoreLogCall
    \/ LoadLogCall

SpecLog == InitLog /\ [][NextLog]_vars

(* --------------------------- get_all_combos --------------------------- *)

\* Most keys of the dictionary passed to get_all_combos.
MaxComboKeys == 3

\* Most values to choose from under one key.
MaxChoices == 3

\* A dictionary of choices is the sequence of its items [key, values] in
\* the order of insertion.
ComboKeyNames == <<"a", "b", "c", "d", "e">>

ComboKeys == {ComboKeyNames[i] : i \in 1..MaxComboKeys}

\* The value sequences: <<>>, <<1>>, <<1, 2>>, ... and one that holds a
\* value twice.
ChoiceSeqs == {[i \in 1..n |-> i] : n \in 0..MaxChoices} \cup {<<1, 1>>}

\* Variant of popitem: the first-inserted item is removed and returned.
popitem_First(all_values) == [item |-> all_values[1], rest |-> Tail(all_values)]

\* dict.popitem(): the item inserted last, and the dictionary without it.
popitem(all_values) == [item |-> all_values[Len(all_values)], rest |-> SubSeq(all_values, 1, Len(all_values) - 1)]

RECURSIVE UpdateEach(_, _, _)
\* Lines 163-165: every other_combo updated with {key: value}, in order.
UpdateEach(other_combos, key, value) ==
    IF other_combos = <<>> THEN <<>>
    ELSE << DictPut(other_combos[1], key, value) >>
            \o UpdateEach(Tail(other_combos), key, value)

RECURSIVE CombosFrom(_, _, _, _)
RECURSIVE get_all_combos(_)

\* The loop of lines 160-165 from the i-th value on; rest is all_values
\* after popitem.
CombosFrom(key, values, i, rest) ==
    IF i > Len(values) THEN <<>>
    ELSE UpdateEach(get_all_combos(rest).output, key, values[i])
            \o CombosFrom(key, values, i + 1, rest)

\* get_all_combos(all_values): the list returned, and all_values as the
\* call leaves it (the recursive calls work on copies).
get_all_combos(all_values) ==
    IF Len(all_values) = 0
    THEN [output |-> << EmptyDict >>, all_values |-> all_values]
    ELSE LET item == popitem(all_values).item
             rest == popitem(all_values).rest
         IN  [ output |-> CombosFrom(item.key, item.values, 1, rest),
               all_values |-> rest ]

\* The dictionaries the model passes: distinct keys in any order of
\* insertion, each with a sequence of choices.
ComboInputs ==
    { d \in UNION { SeqsOfLen([key : ComboKeys, values : ChoiceSeqs], l) :
                        l \in 0..MaxComboKeys } :
        \A i \in DOMAIN d, j \in DOMAIN d : i # j => d[i].key # d[j].key }

\* A caller holds a dictionary of choices: args.given is the dictionary as
\* it was made, args.all_values the dictionary object as it is now.
InitCombos ==
    /\ Constructed(make_simple_spn(0))
    /\ fn = "none"
    /\ args \in {[given |-> d, all_values |-> d] : d \in ComboInputs}
    /\ result = <<>>
    /\ file = None

\* get_all_combos(all_values) is called, a first or a second time, on the
\* same dictionary object; result holds the lists returned so far.
GetAllCombosCall ==
    /\ fn \in {"none", "get_all_combos"}
    /\ Len(result) < 2
    /\ fn' = "get_all_combos"
    /\ result' = Append(result, get_all_combos(args.all_values).output)
    /\ args' = [args EXCEPT !.all_values =
                    get_all_combos(args.all_values).all_values]
    /\ UNCHANGED << simVars, file >>

NextCombos == GetAllCombosCall

SpecCombos == InitCombos /\ [][NextCombos]_vars

(* --------------------------- RestrictedDict --------------------------- *)

\* Most assignments made to one RestrictedDict.
MaxAssignments == 3

\* Python values as pairs << class, text >>; bool is a subclass of int.
PyValues == { <<"int", "1">>, <<"int", "2">>, <<"bool", "True">>, <<"str", "x">> }

PyTypes == {"int", "bool", "str"}

\* isinstance(value, type)
isinstance(value, type) ==
    \/ value[1] = type
    \/ (value[1] = "bool" /\ type = "int")

\* The names used in assignments; "typo" is never declared.
VarNames == {"foo", "bar", "typo"}

\* The dictionaries `variables` given to __init__.
VariablesChoices ==
    UNION { [D -> PyTypes] : D \in SUBSET {"foo", "bar"} }

\* __check_var_exists: the exception raised, or "none".
check_var_exists(self, var_name) ==
    IF var_name \notin DOMAIN self.variables THEN "KeyError" ELSE "none"

\* Variant of check_valid_type: every value passes.
check_valid_type_Never(self, var_name, value) == "none"

\* __check_valid_type: the exception raised, or "none".
check_valid_type(self, var_name, value) ==
    IF ~ isinstance(value, self.variables[var_name]) THEN "TypeError" ELSE "none"

\* __check_valid_assignment: the first exception raised, or "none".
check_valid_assignment(self, var_name, value) ==
    IF check_var_exists(self, var_name) # "none"
    THEN check_var_exists(self, var_name)
    ELSE check_valid_type(self, var_name, value)

\* __setitem__: the object after the call and the exception raised.
setitem(self, var_name, value) ==
    IF check_valid_assignment(self, var_name, value) # "none"
    THEN [self |-> self, raised |-> check_valid_assignment(self, var_name, value)]
    ELSE [ self |-> [ self EXCEPT
                        !.attrs = DictPut(self.attrs, var_name, value),
                        !.present_variables = @ \cup {var_name} ],
           raised |-> "none" ]

\* __init__(variables) with the default values={}.
NewRestrictedDict(variables) ==
    [variables |-> variables, attrs |-> EmptyDict, present_variables |-> {}]

\* A RestrictedDict has been constructed; result holds the object, the
\* object before the last assignment and the exception that raised.
InitRestrictedDict ==
    /\ Constructed(make_simple_spn(0))
    /\ fn = "__init__"
    /\ args \in {[variables |-> v, count |-> 0] : v \in VariablesChoices}
    /\ result = [ self |-> NewRestrictedDict(args.variables),
                  before |-> NewRestrictedDict(args.variables),
                  raised |-> "none" ]
    /\ file = None

\* self[var_name] = value
SetItemCall(var_name, value) ==
    /\ fn \in {"__init__", "__setitem__"}
    /\ args.count < MaxAssignments
    /\ fn' = "__setitem__"
    /\ args' = [ variables |-> args.variables, count |-> args.count + 1,
                 var_name |-> var_name, value |-> value ]
    /\ result' = [ self |-> setitem(result.self, var_name, value).self,
                   before |-> result.self,
                   raised |-> setitem(result.self, var_name, value).raised ]
    /\ UNCHANGED << simVars, file >>

NextRestrictedDict ==
    \E var_name \in VarNames, value \in PyValues : SetItemCall(var_name, value)

SpecRestrictedDict == InitRestrictedDict /\ [][NextRestrictedDict]_vars

(* ------------- aggregate_in_timeboxes, statement by statement --------- *)

\* The box indices __agg_curr_timebox reads or writes (lines 452-457).
AggTouched(curr_timebox, num_points_added) ==
    IF num_points_added = 0 /\ curr_timebox # 0
    THEN {curr_timebox, curr_timebox - 1}
    ELSE {curr_timebox}

\* Variant of NoBoxLeft: the function goes on with the box after the last.
NoBoxLeft_OneLate(curr_timebox, num_timeboxes) == curr_timebox > num_timeboxes

\* Line 432: if curr_timebox >= num_timeboxes
NoBoxLeft(curr_timebox, num_timeboxes) == curr_timebox >= num_timeboxes

\* The locals of a call that stopped with an exception.
AggRaised(r, kind, box) == [r EXCEPT !.pc = kind, !.touched = @ \cup {box}]

\* The calls followed statement by statement: the measurement at position
\* k is k, the timestamps are any ascending sequence; and the two calls of
\* the tests.
AggStepInputs ==
    { AggArgs(ts, [k \in 1..Len(ts) |-> k], n, size) :
        ts \in { s \in UNION { SeqsOfLen(0..MaxTimestamp, l) :
                                l \in 0..MaxMeasurements } : Ascending(s) },
        n \in 1..MaxTimeboxes, size \in TimeboxSizes }
    \cup {NoValsForFirstBoxes, NoValsLastBoxes}

InitAggregateSteps ==
    /\ Constructed(make_simple_spn(0))
    /\ fn = "none"
    /\ args \in AggStepInputs
    /\ result = <<>>
    /\ file = None

\* Lines 413-425: the assertion, the locals, and the entry of the for loop.
\* result holds the locals: i (from 0), curr_timebox, num_points_added,
\* output, the box indices read or written so far, and the position.
AggEnter ==
    /\ fn = "none"
    /\ fn' = "aggregate_in_timeboxes"
    /\ result' =
         [ pc |-> IF Len(args.measurements) # Len(args.timestamps)
                  THEN "AssertionError"
                  ELSE IF Len(args.measurements) = 0 THEN "after" ELSE "while",
           i |-> 0, curr_timebox |-> 0, num_points_added |-> 0,
           output |-> [j \in 1..args.num_timeboxes |-> FracOfInt(0)],
           touched |-> {} ]
    /\ UNCHANGED << simVars, args, file >>

\* The position is the test of the while loop (line 426).
AtWhile == fn = "aggregate_in_timeboxes" /\ result.pc = "while"

\* timestamps[i] >= timebox_endtimes[curr_timebox]
WhileCondition ==
    args.timestamps[result.i + 1]
        >= timebox_endtime(result.curr_timebox, args.timebox_size)

\* Lines 426-433: the test holds, the current box is closed and the next
\* one becomes current; the function returns when there is none.  An index
\* past timebox_endtimes raises IndexError.
AggCloseBox ==
    /\ AtWhile
    /\ LET c == result.curr_timebox
       IN  IF c >= args.num_timeboxes
           THEN result' = AggRaised(result, "IndexError", c)
           ELSE /\ WhileCondition
                /\ result' =
                     [ result EXCEPT
                         !.output = agg_curr_timebox(@, c, result.num_points_added),
                         !.num_points_added = 0,
                         !.curr_timebox = c + 1,
                         !.touched = @ \cup AggTouched(c, result.num_points_added),
                         !.pc = IF NoBoxLeft(c + 1, args.num_timeboxes)
                                THEN "returned" ELSE "while" ]
    /\ UNCHANGED << simVars, fn, args, file >>

\* Lines 426, 435-436: the test fails, the measurement is added to the
\* current box, and the for loop goes to the next measurement or ends.
AggAddMeasurement ==
    /\ AtWhile
    /\ result.curr_timebox < args.num_timeboxes
    /\ ~WhileCondition
    /\ result' =
         [ result EXCEPT
             !.output[result.curr_timebox + 1] =
                    FracAddInt(@, args.measurements[result.i + 1]),
             !.num_points_added = @ + 1,
             !.i = @ + 1,
             !.touched = @ \cup {result.curr_timebox},
             !.pc = IF result.i + 1 < Len(args.measurements)
                    THEN "while" ELSE "after" ]
    /\ UNCHANGED << simVars, fn, args, file >>

\* Lines 438-443: the current box is closed, the boxes after it filled,
\* and the output returned.
AggAfterLoop ==
    /\ fn = "aggregate_in_timeboxes" /\ result.pc = "after"
    /\ LET c == result.curr_timebox
       IN  IF c >= args.num_timeboxes
           THEN result' = AggRaised(result, "IndexError", c)
           ELSE result' =
                 [ result EXCEPT
                     !.output = FillRemaining(
                                    agg_curr_timebox(@, c, result.num_points_added),
                                    c, args.num_timeboxes),
                     !.touched = @ \cup AggTouched(c, result.num_points_added)
                                   \cup (IF c # args.num_timeboxes - 1
                                         THEN c..(args.num_timeboxes - 1)
                                         ELSE {}),
                     !.pc = "returned" ]
    /\ UNCHANGED << simVars, fn, args, file >>

NextAggregateSteps ==
    \/ AggEnter
    \/ AggCloseBox
    \/ AggAddMeasurement
    \/ AggAfterLoop

\* The function runs on until it returns or raises.
SpecAggregateSteps ==
    InitAggregateSteps /\ [][NextAggregateSteps]_vars /\ WF_vars(NextAggregateSteps)

(* --------------------------- gen_directories -------------------------- *)

\* Longest path, in characters.
MaxPathLen == 4

\* A path is a text over PathChars; "/" separates its components.
PathChars == {"a", "b", "/"}

Paths == UNION { SeqsOfLen(PathChars, l) : l \in 0..MaxPathLen }

\* The position of the last "/" of a text, 0 when it has none.
LastSlash(p) ==
    IF \E i \in DOMAIN p : p[i] = "/"
    THEN CHOOSE i \in DOMAIN p : p[i] = "/" /\ \A j \in DOMAIN p : p[j] = "/" => j <= i
    ELSE 0

RECURSIVE RStripSlashes(_)
\* head.rstrip("/")
RStripSlashes(p) ==
    IF p # <<>> /\ p[Len(p)] = "/" THEN RStripSlashes(SubSeq(p, 1, Len(p) - 1))
    ELSE p

\* os.path.dirname: the text up to the last "/", without trailing slashes
\* unless it consists of slashes only.
dirname(p) ==
    LET head == SubSeq(p, 1, LastSlash(p))
    IN  IF head # <<>> /\ RStripSlashes(head) # <<>> THEN RStripSlashes(head)
        ELSE head

RECURSIVE Components(_)
\* The names between the slashes of a path.
Components(p) ==
    IF p = <<>> THEN <<>>
    ELSE IF p[Len(p)] = "/" THEN Components(SubSeq(p, 1, Len(p) - 1))
    ELSE IF LastSlash(p) = 0 THEN << p >>
    ELSE Append(Components(SubSeq(p, 1, LastSlash(p))),
                SubSeq(p, LastSlash(p) + 1, Len(p)))

\* The directory a path names: from the root when the path starts with
\* "/", from the working directory otherwise.
Directory(p) == [root |-> (p # <<>> /\ p[1] = "/"), names |-> Components(p)]

\* The directory that holds d.
ParentOf(d) == [d EXCEPT !.names = SubSeq(@, 1, Len(@) - 1)]

\* A directory is there: the root and the working directory always are.
IsDir(d, dirs) == d.names = <<>> \/ d \in dirs

\* os.path.exists(path), on a file system that holds directories only.
exists(path, dirs) == path # <<>> /\ IsDir(Directory(path), dirs)

\* os.mkdir(path): the directories afterwards and the exception raised.
mkdir(path, dirs) ==
    LET d == Directory(path)
    IN  IF path = <<>> THEN [dirs |-> dirs, raised |-> "FileNotFoundError"]
        ELSE IF IsDir(d, dirs) THEN [dirs |-> dirs, raised |-> "FileExistsError"]
        ELSE IF ~IsDir(ParentOf(d), dirs)
        THEN [dirs |-> dirs, raised |-> "FileNotFoundError"]
        ELSE [dirs |-> dirs \cup {d}, raised |-> "none"]

RECURSIVE gen_directories_ParentsOnly(_, _)
\* Variant of gen_directories: the ancestors are created, path itself is
\* not.
gen_directories_ParentsOnly(path, dirs) ==
    IF exists(path, dirs) \/ path = <<>>
    THEN [dirs |-> dirs, raised |-> "none"]
    ELSE LET parent == dirname(path)
             made == gen_directories_ParentsOnly(parent, dirs)
         IN  IF made.raised # "none" THEN made
             ELSE IF exists(parent, made.dirs) \/ parent = <<>> THEN made
             ELSE mkdir(parent, made.dirs)

RECURSIVE gen_directories(_, _)
\* gen_directories(path) on the directories dirs: the directories
\* afterwards and the exception raised ("none" when it returns).
gen_directories(path, dirs) ==
    IF exists(path, dirs) \/ path = <<>>
    THEN [dirs |-> dirs, raised |-> "none"]
    ELSE LET parent == dirname(path)
             made == gen_directories(parent, dirs)
         IN  IF made.raised # "none" THEN made
             ELSE mkdir(path, made.dirs)

\* The directories there may be before a call.
Dir(root, names) == [root |-> root, names |-> names]

GivenDirectories ==
    { D \in SUBSET { Dir(FALSE, << <<"a">> >>), Dir(FALSE, << <<"b">> >>),
                     Dir(FALSE, << <<"a">>, <<"b">> >>),
                     Dir(TRUE, << <<"a">> >>) } :
        \A d \in D : IsDir(ParentOf(d), D) }

\* A caller holds a path; result holds the directories there are, the
\* directories before the last call, and the exception of every call made.
InitDirectories ==
    /\ Constructed(make_simple_spn(0))
    /\ fn = "none"
    /\ args \in {[path |-> p] : p \in Paths}
    /\ result \in {[dirs |-> D, before |-> D, raised |-> <<>>] :
                        D \in GivenDirectories}
    /\ file = None

\* gen_directories(path) is called, a first or a second time.
GenDirectoriesCall ==
    /\ fn \in {"none", "gen_directories"}
    /\ Len(result.raised) < 2
    /\ fn' = "gen_directories"
    /\ result' = [ dirs |-> gen_directories(args.path, result.dirs).dirs,
                   before |-> result.dirs,
                   raised |-> Append(result.raised,
                                gen_directories(args.path, result.dirs).raised) ]
    /\ UNCHANGED << simVars, args, file >>

NextDirectories == GenDirectoriesCall

SpecDirectories == InitDirectories /\ [][NextDirectories]_vars

(* ---------------------- vocabulary of the claims ---------------------- *)

\* run_simulation is between iterations, or has returned to its caller.
InRun == pc \in {"loop", "returned"}

Rows(lg) == Len(lg["time"])

\* Row i (from 1) of a log shows the token counts of the marking tk.
RowShows(lg, i, tk) ==
    \A p \in DOMAIN tk : lg[p][i] = get_num_tokens(tk, p)

RECURSIVE FiringsToDead(_, _, _)
\* The number of firings after which the net is dead when exactly one
\* transition is enabled at every marking on the way; -1 when some marking
\* enables several transitions or is not dead after fuel firings.
FiringsToDead(n, tk, fuel) ==
    LET e == Enabled(n, tk)
    IN  IF Len(e) = 0 THEN 0
        ELSE IF Len(e) > 1 \/ fuel = 0 THEN -1
        ELSE LET rest == FiringsToDead(
                            n, fire(transition(n, e[1].name), e[1].mode, tk),
                            fuel - 1)
             IN  IF rest = -1 THEN -1 ELSE rest + 1

RECURSIVE MarkingAfter(_, _, _)
\* The marking after i firings of the only enabled transition.
MarkingAfter(n, tk, i) ==
    IF i = 0 THEN tk
    ELSE LET e == Enabled(n, tk)
         IN  MarkingAfter(n, fire(transition(n, e[1].name), e[1].mode, tk),
                          i - 1)

\* run_simulation was called without step and time limit.
Unlimited == IsNone(max_steps) /\ IsNone(max_time)

(* ------------------------------- C1 ----------------------------------- *)

\* C1: on a net that can fire exactly K times before it is dead, with one
\* enabled transition at every step, run_simulation without step and time
\* limit makes at most K+1 iterations and leaves the loop after the (K+1)-th,
\* and the log it returns has K+1 rows in every series, row i showing the
\* marking after i firings, with strictly increasing times.
C1_RunUntilDead ==
    (InRun /\ caller = "user" /\ Unlimited
        /\ FiringsToDead(net, start_tokens, MaxRows) >= 0) =>
    LET K == FiringsToDead(net, start_tokens, MaxRows)
    IN  /\ iters <= K + 1
        /\ (iters = K + 1 => broke)
        /\ (pc = "returned" =>
              /\ \A k \in DOMAIN log : Len(log[k]) = K + 1
              /\ \A i \in 0..K :
                    RowShows(log, i + 1, MarkingAfter(net, start_tokens, i))
              /\ \A i \in 1..K : log["time"][i + 1] > log["time"][i])

\* A run without limits that returned after MaxTokens firings.
C1_Witness ==
    /\ pc = "returned" /\ caller = "user" /\ Unlimited
    /\ FiringsToDead(net, start_tokens, MaxRows) = 2
    /\ Rows(log) = 3
    /\ fired = 2

(* ------------------------------- C2 ----------------------------------- *)

\* C2: when run_simulation returns, the number of logged rows is the number
\* of transitions fired during the call plus one, however the run ended.
C2_RowsAreFiringsPlusOne ==
    pc = "returned" => Rows(log) = fired + 1

(* ------------------------------- C3 ----------------------------------- *)

\* C3: run_simulation with max_steps = 0 returns a log of exactly one row,
\* the initial marking with time 0.
C3_ZeroStepsOneRow ==
    (pc = "returned" /\ max_steps = Some(0)) =>
        /\ \A k \in DOMAIN log : Len(log[k]) = 1
        /\ log["time"][1] = 0
        /\ RowShows(log, 1, start_tokens)

(* ------------------------------- C4 ----------------------------------- *)

\* Every row of the log but the last has a timestamp below max_time.
OnlyLastRowReaches(lg, mt) ==
    \A i \in 1..(Rows(lg) - 1) : lg["time"][i] < Val(mt)

\* C4: with a finite max_time, every row but the last has a timestamp below
\* max_time, in the log being built, in the log returned and in every log
\* stored by run_repeated_experiment; and once a row with a timestamp at or
\* above max_time is logged the loop is left.
C4_StopsAtFirstRowPastMaxTime ==
    ~IsNone(max_time) =>
        /\ (pc \in {"loop", "returned", "raised"} =>
                OnlyLastRowReaches(log, max_time))
        /\ (pc = "loop" /\ Rows(log) > 0
                /\ log["time"][Rows(log)] >= Val(max_time) => broke)
        /\ (pc \in {"rep", "rep_returned"} =>
                \A r \in DOMAIN run_to_log :
                    OnlyLastRowReaches(run_to_log[r], max_time))

\* A run that went on after a first delay below max_time and returned with
\* a last row past max_time.
C4_Witness ==
    /\ pc = "returned" /\ IsNone(max_steps)
    /\ max_time = Some(50 * TimeScale)
    /\ Rows(log) >= 2
    /\ log["time"][Rows(log)] >= Val(max_time)
    /\ fired = Rows(log)

(* ------------------------------- C5 ----------------------------------- *)

\* C5: with max_steps = N the loop makes at most N iterations and fires at
\* most N transitions, on every net: the budget left is N minus the
\* iterations made, and the loop cannot be entered again once it is 0.
C5_StepBudgetBoundsTheRun ==
    (pc \in {"loop", "returned", "raised"} /\ ~IsNone(max_steps)) =>
        /\ iters <= Val(max_steps)
        /\ fired <= iters
        /\ remaining_steps = Val(max_steps) - iters
        /\ Rows(log) = iters

\* A net that is never dead, stopped by its budget after two firings.
C5_Witness ==
    /\ pc = "returned" /\ max_steps = Some(2) /\ IsNone(max_time)
    /\ iters = 2 /\ fired = 2 /\ ~broke
    /\ Len(Enabled(net, tokens)) > 0

(* ------------------------------- C6 ----------------------------------- *)

\* The transitions of the net that have a mode in the marking tk.
WithModes(tk) == {i \in DOMAIN net.trans : modes(net.trans[i], tk) # <<>>}

\* post is pre after one firing of t: an output place holds its old value
\* changed by the arc's expression, an input place without output arc has
\* lost its token, every other place is as it was.
FiredOnce(t, pre, post) ==
    \A p \in DOMAIN pre :
        post[p] = IF p \in DOMAIN t.out THEN <<pre[p][1] + t.out[p]>>
                  ELSE IF p \in t.inputs THEN <<>>
                  ELSE pre[p]

\* The sampled transition was fired once with its sampled mode, which is
\* its first mode in the marking before, and the sampled delay returned.
FiredTheSample(c) ==
    LET t == transition(net, c.sample.name)
    IN  /\ c.sample.kind = "ok"
        /\ modes(t, c.pre) # <<>>
        /\ c.sample.mode = modes(t, c.pre)[1]
        /\ FiredOnce(t, c.pre, c.post)
        /\ c.ret = Some(c.sample.delay)

\* C6 as stated: step() returns None and leaves the marking unchanged when
\* no transition is enabled; otherwise it fires exactly one transition, the
\* one sampled with its sampled binding, and returns the sampled delay.
\* (Stated for first draws above 0, where the logarithm is defined.)
C6_StepNoneOrFires ==
    (last.op = "step" /\ last.u1 > 0) =>
        IF WithModes(last.pre) = {}
        THEN last.outcome = "None" /\ last.post = last.pre
        ELSE last.outcome = "delay" /\ FiredTheSample(last)

\* C6 as amended: step() returns None and leaves the marking unchanged when
\* no transition is enabled; when some transition is enabled it either
\* fires exactly the sampled transition once and returns the sampled delay,
\* or the sampler's failure (first draw 0, rate sum 0, failed assertion)
\* is raised to the caller with the marking unchanged.
C6_StepOutcomes ==
    last.op = "step" =>
        IF WithModes(last.pre) = {}
        THEN last.outcome = "None" /\ last.post = last.pre
        ELSE \/ last.outcome = "delay" /\ FiredTheSample(last)
             \/ /\ last.outcome = "raised"
                /\ last.post = last.pre
                /\ last.sample.kind \in
                     {"ValueError", "ZeroDivisionError", "AssertionError"}
                /\ \/ last.u1 = 0
                   \/ SumSeq(enabled_rates(last.sample.enabled)) = 0
                   \/ last.u2 = 0 /\ last.sample.enabled[1].rate = 0

\* A step that chose among several enabled transitions and fired one.
C6_Witness ==
    /\ last.op = "step" /\ last.outcome = "delay"
    /\ Len(last.sample.enabled) > 1
    /\ last.post # last.pre
    /\ tokens = last.post

(* ------------------------------- C7 ----------------------------------- *)

\* C7: sample_next_transition raises the SnakesError exactly when every
\* transition has an empty list of modes; otherwise its list of enabled
\* transitions holds exactly the transitions with a mode, in the net's
\* order, each with its first mode and the rate evaluated on that mode.
C7_EnabledListAndNoTransitionError ==
    last.op \in {"sample", "step"} =>
        LET enabled == last.sample.enabled
            with == WithModes(last.pre)
            Entry(i) == [ name |-> net.trans[i].name,
                          mode |-> modes(net.trans[i], last.pre)[1],
                          rate |-> get_current_rate(
                                      net.trans[i],
                                      modes(net.trans[i], last.pre)[1]) ]
        IN  /\ (last.sample.kind = "SnakesError") <=> (with = {})
            /\ Len(enabled) = Cardinality(with)
            /\ \A i \in with : \E j \in DOMAIN enabled : enabled[j] = Entry(i)
            /\ \A j \in DOMAIN enabled : \E i \in with : enabled[j] = Entry(i)
            /\ \A i, k \in with : \A j, l \in DOMAIN enabled :
                  (i < k /\ enabled[j] = Entry(i) /\ enabled[l] = Entry(k))
                      => j < l

\* A call that found some transitions with a mode and others without,
\* one of the enabled ones with rate 0.
C7_Witness ==
    /\ last.op = "sample"
    /\ Len(last.sample.enabled) = 2
    /\ Len(net.trans) = 3
    /\ \E j \in DOMAIN last.sample.enabled : last.sample.enabled[j].rate = 0

(* ------------------------------- C8 ----------------------------------- *)

RECURSIVE CumRate(_, _)
\* rate_1 + ... + rate_i of a list of enabled transitions.
CumRate(enabled, i) ==
    IF i = 0 THEN 0 ELSE CumRate(enabled, i - 1) + enabled[i].rate

\* The first position whose cumulative probability is at least u2.
FirstReaching(enabled, u2) ==
    CHOOSE i \in DOMAIN enabled :
        /\ CumRate(enabled, i) * UnitDraw >= u2 * CumRate(enabled, Len(enabled))
        /\ \A j \in 1..(i - 1) :
              CumRate(enabled, j) * UnitDraw
                  < u2 * CumRate(enabled, Len(enabled))

ReturnsFirstReaching(c) ==
    LET i == FirstReaching(c.sample.enabled, c.u2)
    IN  /\ c.sample.kind = "ok"
        /\ c.sample.name = c.sample.enabled[i].name
        /\ c.sample.mode = c.sample.enabled[i].mode

C9_DrawsDecideSeparately ==
    (last.op = "sample" /\ last.sample.kind = "ok") =>
        /\ last.sample.used = 2
        /\ last.post = last.pre
        /\ tokens = last.pre
        /\ \A v \in Draws :
              LET a == sample_next_transition(net, last.pre, last.u1, v)
                  b == sample_next_transition(net, last.pre, v, last.u2)
              IN  /\ a.kind = "ok" => a.delay = last.sample.delay
                  /\ b.kind = "ok" => /\ b.name = last.sample.name
                                      /\ b.mode = last.sample.mode

\* A successful call on a marking where the second draw matters.
C9_Witness ==
    /\ last.op = "sample" /\ last.sample.kind = "ok"
    /\ \E v \in Draws :
          LET a == sample_next_transition(net, last.pre, last.u1, v)
          IN  a.kind = "ok" /\ a.name # last.sample.name

(* ------------------------------- C10 ---------------------------------- *)

\* C10: run_repeated_experiment returns a collection whose keys are exactly
\* 0..num_reps-1, and the first row of every repetition's log is the
\* marking the net had at the call, with time 0.
C10_EveryRepetitionStartsAtCallMarking ==
    pc = "rep_returned" =>
        /\ DOMAIN run_to_log = 0..(num_reps - 1)
        /\ \A r \in DOMAIN run_to_log :
              /\ Rows(run_to_log[r]) >= 1
              /\ run_to_log[r]["time"][1] = 0
              /\ RowShows(run_to_log[r], 1, call_tokens)

(* ------------------------------- C11 ---------------------------------- *)

\* C11: when run_repeated_experiment with num_reps >= 1 has returned, the
\* marking of the net is the one the last repetition ended in (the marking
\* at the call after the firings of that repetition); it is not reset.
C11_LeftInLastRunsEndState ==
    (pc = "rep_returned" /\ num_reps >= 1) =>
        tokens = MarkingAfter(net, call_tokens, fired)

\* A repeated experiment returned with the net away from the marking it
\* was called on.
C11_Witness ==
    /\ pc = "rep_returned" /\ num_reps >= 2
    /\ fired >= 1
    /\ tokens # call_tokens

(* ------------------------------- C12 ---------------------------------- *)

\* Every series of the log is as long as its "time" series, and the "time"
\* series never decreases.
WellFormedLog(lg) ==
    /\ \A k \in DOMAIN lg : Len(lg[k]) = Len(lg["time"])
    /\ \A i \in 1..(Len(lg["time"]) - 1) : lg["time"][i] <= lg["time"][i + 1]

\* C12: between two iterations of the loop and when run_simulation has
\* returned, every place's series is as long as the "time" series and the
\* "time" series is non-decreasing; so is every log that
\* run_repeated_experiment has stored.
C12_SeriesEqualLengthTimeAscending ==
    /\ (pc \in {"loop", "returned"} =>
            /\ DOMAIN log = Range(net.places) \cup {"time"}
            /\ WellFormedLog(log))
    /\ (pc \in {"rep", "rep_returned"} =>
            \A r \in DOMAIN run_to_log : WellFormedLog(run_to_log[r]))

\* A returned log of three rows on a net of three places with two different
\* delays between the rows.
C12_Witness ==
    /\ pc = "returned"
    /\ Len(net.places) = 3
    /\ Rows(log) = 3
    /\ log["time"][2] - log["time"][1] # log["time"][3] - log["time"][2]

(* ------------------------------- C13 ---------------------------------- *)

\* aggregate_in_timeboxes has been called and has returned.
Aggregated == fn = "aggregate_in_timeboxes"

\* The measurements (by index) with a timestamp in box i, counted from 0:
\* i * timebox_size <= t < (i + 1) * timebox_size.
InBox(a, i) ==
    {k \in DOMAIN a.timestamps :
        /\ i * a.timebox_size <= a.timestamps[k]
        /\ a.timestamps[k] < (i + 1) * a.timebox_size}

RECURSIVE SumAt(_, _)
SumAt(ms, K) ==
    IF K = {} THEN 0
    ELSE LET k == CHOOSE x \in K : TRUE IN ms[k] + SumAt(ms, K \ {k})

\* The arithmetic mean of the measurements of box i.
MeanOfBox(a, i) == Frac(SumAt(a.measurements, InBox(a, i)), Cardinality(InBox(a, i)))

\* C13: for ascending non-negative timestamps and num_timeboxes >= 1 the
\* output has num_timeboxes values, and the value of every box that holds
\* a measurement is the mean of the measurements with
\* i * timebox_size <= t < (i + 1) * timebox_size.
C13_BoxValueIsMeanOfItsMeasurements ==
    Aggregated =>
        /\ Len(result) = args.num_timeboxes
        /\ \A i \in 0..(args.num_timeboxes - 1) :
              InBox(args, i) # {} => result[i + 1] = MeanOfBox(args, i)

\* A call with a measurement on the boundary between two boxes that both
\* hold measurements, the mean of the first not a whole number.
C13_Witness ==
    /\ Aggregated
    /\ args.num_timeboxes = 2
    /\ \E k \in DOMAIN args.timestamps :
            args.timestamps[k] = args.timebox_size
    /\ InBox(args, 0) # {} /\ InBox(args, 1) # {}
    /\ result[1][2] = 2
    /\ result[2] # result[1]

(* ------------------------------- C14 ---------------------------------- *)

\* The box (from 0) the timestamp t falls in.
BoxOf(a, t) == t \div a.timebox_size

\* Box i holds no measurement and lies before the box of the last one.
EmptyBeforeLast(a, i) ==
    /\ InBox(a, i) = {}
    /\ a.timestamps # <<>>
    /\ i < BoxOf(a, a.timestamps[Len(a.timestamps)])

\* C14: a box without measurement that lies before the box of the last
\* measurement has the value of the box before it, and 0 when no box before
\* it holds a measurement; the call of the test with no values for the first
\* boxes returns [0, 0, 13/3, 13/3, 7.5, 9, 10].
C14_EmptyBoxTakesPreviousValue ==
    Aggregated =>
        /\ \A i \in 0..(args.num_timeboxes - 1) :
              EmptyBeforeLast(args, i) =>
                /\ (i > 0 => result[i + 1] = result[i])
                /\ ((\A j \in 0..i : InBox(args, j) = {}) =>
                        result[i + 1] = FracOfInt(0))
        /\ (args = NoValsForFirstBoxes =>
                result = << <<0, 1>>, <<0, 1>>, <<13, 3>>, <<13, 3>>,
                            <<15, 2>>, <<9, 1>>, <<10, 1>> >>)

\* The call of the test has returned; its boxes 0, 1 and 3 are empty.
C14_Witness ==
    /\ Aggregated
    /\ args = NoValsForFirstBoxes
    /\ EmptyBeforeLast(args, 0) /\ EmptyBeforeLast(args, 3)
    /\ result[4] = <<13, 3>>

(* ------------------------------- C15 ---------------------------------- *)

\* C15: when the last measurement falls in a box k before the last box,
\* box k and every box after it have the mean of box k's measurements; the
\* call of the test with no values for the last boxes returns
\* [1, 2.5, 4, 4, 4, 4, 4].
C15_TrailingBoxesRepeatLastValue ==
    Aggregated =>
        /\ (args.timestamps # <<>> =>
              LET k == BoxOf(args, args.timestamps[Len(args.timestamps)])
              IN  k < args.num_timeboxes - 1 =>
                    \A j \in k..(args.num_timeboxes - 1) :
                        result[j + 1] = MeanOfBox(args, k))
        /\ (args = NoValsLastBoxes =>
                result = << <<1, 1>>, <<5, 2>>, <<4, 1>>, <<4, 1>>, <<4, 1>>,
                            <<4, 1>>, <<4, 1>> >>)

\* The call of the test has returned: its last measurement is in box 2 of 7.
C15_Witness ==
    /\ Aggregated
    /\ args = NoValsLastBoxes
    /\ BoxOf(args, args.timestamps[Len(args.timestamps)]) = 2
    /\ result[7] = <<4, 1>>

(* ------------------------------- C16 ---------------------------------- *)

\* The dictionary handed to store_log, when its keys are all integers.
StoredRuns ==
    /\ fn \in {"store_log", "load_log"}
    /\ ~IsNone(args.log)
    /\ \A k \in DOMAIN Val(args.log) : k[1] = "int"

IsIntegerText(text) == \A i \in DOMAIN text : text[i] \in Digits

\* The key load_log is to return for a top-level key of the file.
LoadedKey(text) ==
    IF IsIntegerText(text) THEN IntKey(DecimalValue(text)) ELSE StrKey(text)

\* C17: load_log does not fail, and for every entry of the file the
\* dictionary it returns has the entry's value under the integer the key
\* reads as, or under the key as text when it does not read as an integer.
C17_LoadConvertsIntegerKeysOnly ==
    fn = "load_log" =>
        /\ result.kind = "ok"
        /\ \A i \in DOMAIN Val(file) :
              LET e == Val(file)[i]
              IN  /\ LoadedKey(e.key) \in DOMAIN result.log
                  /\ result.log[LoadedKey(e.key)] = JsonDecode(e.value)

(* ------------------------------- C18 ---------------------------------- *)

\* The net was built by build_spn from TRANS_TO_PLACES.
BuiltByBuildSpn == net.places = <<"gba2", "gbpdn", "pdn">>

\* The latest call was a step() that fired a transition.
StepFired == last.op = "step" /\ last.outcome = "delay"

\* The change firing is to make to the token count of place p.
UnitChange(arc_dict, p) ==
    IF p \in Range(arc_dict.pre_arcs) THEN -1
    ELSE IF p \in Range(arc_dict.post_arcs) THEN 1
    ELSE 0

\* C18: firing a transition of a net built by build_spn takes 1 from the
\* token count of each pre-arc place, adds 1 to that of each post-arc
\* place, and leaves the count of its read-arc places and of the places
\* not connected to it unchanged.
C18_FiringChangesCountsByArcs ==
    (BuiltByBuildSpn /\ StepFired) =>
        \A p \in Range(net.places) :
            get_num_tokens(last.post, p) - get_num_tokens(last.pre, p)
                = UnitChange(TRANS_TO_PLACES[last.sample.name], p)

(* ------------------------------- C19 ---------------------------------- *)

C20_OneNonNegativeTokenPerPlace ==
    BuiltByBuildSpn =>
        \A p \in DOMAIN tokens :
            /\ Len(tokens[p]) = 1
            /\ tokens[p][1] >= 0


\* The number of combinations of the first j items of d.
RECURSIVE NumCombos(_, _)
NumCombos(d, j) == IF j = 0 THEN 1 ELSE NumCombos(d, j - 1) * Len(d[j].values)

\* The i-th (from 0) combination of d when the first-inserted key varies
\* fastest and the last-inserted key slowest.
CombinationAt(d, i) ==
    [ k \in {d[j].key : j \in DOMAIN d} |->
        LET j == CHOOSE j \in DOMAIN d : d[j].key = k
        IN  d[j].values[((i \div NumCombos(d, j - 1)) % Len(d[j].values)) + 1] ]

\* C21: the list returned by get_all_combos holds one dictionary per element
\* of the Cartesian product of the value sequences, none missing or
\* repeated, with the first-inserted key varying fastest and the
\* last-inserted key slowest; for the empty dictionary it is the list of
\* one empty dictionary.
C21_CartesianProductFirstKeyFastest ==
    (fn = "get_all_combos" /\ Len(result) >= 1) =>
        /\ result[1] = [ i \in 1..NumCombos(args.given, Len(args.given)) |->
                            CombinationAt(args.given, i - 1) ]
        /\ (args.given = <<>> => result[1] = << EmptyDict >>)

\* C21: the dictionary {"a": [1,2,3], "b": [1,2], "c": [1]} was passed and
\* six combinations came back, the second differing from the first in "a".
C21_Witness ==
    /\ fn = "get_all_combos"
    /\ args.given = << [key |-> "a", values |-> <<1, 2, 3>>],
                       [key |-> "b", values |-> <<1, 2>>],
                       [key |-> "c", values |-> <<1>>] >>
    /\ Len(result[1]) = 6
    /\ result[1][1] = [k \in {"a", "b", "c"} |-> 1]
    /\ result[1][2]["a"] = 2

\* C30: get_all_combos leaves the dictionary passed to it unchanged, so a
\* second call on the same dictionary returns the same list.
C30_ArgumentDictionaryUnchanged ==
    fn = "get_all_combos" =>
        /\ args.all_values = args.given
        /\ (Len(result) = 2 => result[2] = result[1])


\* C22: an assignment under an undeclared name raises KeyError, one of a
\* value that is not an instance of the declared type raises TypeError,
\* both leaving the object as it was; and at all times the present
\* variables are declared and every stored value is an instance of its
\* declared type.
C22_InvalidAssignmentRaisesAndKeepsState ==
    /\ fn = "__setitem__" =>
        /\ args.var_name \notin DOMAIN args.variables =>
                (result.raised = "KeyError" /\ result.self = result.before)
        /\ ( /\ args.var_name \in DOMAIN args.variables
             /\ ~ isinstance(args.value, args.variables[args.var_name]) ) =>
                (result.raised = "TypeError" /\ result.self = result.before)
    /\ fn \in {"__init__", "__setitem__"} =>
        /\ result.self.present_variables \subseteq DOMAIN args.variables
        /\ DOMAIN result.self.attrs = result.self.present_variables
        /\ \A v \in result.self.present_variables :
                isinstance(result.self.attrs[v], args.variables[v])

\* C22: a str was assigned to the int variable "foo" that already held a
\* value, and the assignment raised TypeError.
C22_Witness ==
    /\ fn = "__setitem__"
    /\ args.var_name = "foo"
    /\ "foo" \in DOMAIN args.variables
    /\ args.variables["foo"] = "int"
    /\ args.value = <<"str", "x">>
    /\ result.raised = "TypeError"
    /\ "foo" \in result.before.present_variables
    /\ result.self.attrs["foo"] = <<"int", "2">>


(* ------------------------------- C23 ---------------------------------- *)

\* The log returned has a row 0, the marking at the call with time 0.
StartsAtCallMarking(lg) ==
    /\ Rows(lg) >= 1
    /\ lg["time"][1] = 0
    /\ RowShows(lg, 1, start_tokens)

\* A row appended to a log that has rows already: the last step fired one
\* transition that was enabled in the marking of the last row, the new row
\* shows the marking after that firing, and its time is the time of the
\* last row plus the delay that step returned.
NextRowByOneFiring(lg, lg2) ==
    LET n == Rows(lg)
    IN  /\ last.op = "step" /\ last.outcome = "delay"
        /\ RowShows(lg, n, last.pre)
        /\ \E i \in WithModes(last.pre) :
                /\ net.trans[i].name = last.sample.name
                /\ FiredOnce(net.trans[i], last.pre, last.post)
        /\ RowShows(lg2, n + 1, last.post)
        /\ lg2["time"][n + 1] = lg["time"][n] + Val(last.ret)
        /\ \A k \in DOMAIN lg : SubSeq(lg2[k], 1, n) = lg[k]

\* C23: the log returned by run_simulation is a faithful trace: it has a
\* row 0 showing the marking at the call with time 0, logged before any
\* firing; and every further row shows the marking of the row before after
\* the firing of exactly one transition enabled there, at the time of the
\* row before plus the delay returned by that step.
C23_LogIsFaithfulTrace ==
    [][ /\ (pc = "loop" /\ Rows(log') = Rows(log) + 1) =>
            IF Rows(log) = 0
            THEN fired = 0 /\ tokens = start_tokens /\ StartsAtCallMarking(log')
            ELSE NextRowByOneFiring(log, log')
        /\ (pc = "loop" /\ pc' = "returned") => StartsAtCallMarking(log') ]_vars


(* ------------------------------- C24 ---------------------------------- *)

\* C24: step() returns None exactly when no transition is enabled; when
\* transitions are enabled and the sum of their rates is 0 the
\* ZeroDivisionError, and when the sampler's check of the cumulative
\* probability fails the AssertionError, is raised out of step() with the
\* marking unchanged; and a step that raises inside run_simulation raises
\* out of run_simulation, which neither breaks the loop nor returns a log.
\* (The division is reached for first draws above 0, where the logarithm
\* is defined.)
C24_OnlyNoTransitionBecomesNone ==
    /\ last.op = "step" =>
        /\ (last.outcome = "None") = (last.sample.enabled = <<>>)
        /\ ( /\ last.sample.enabled # <<>>
             /\ SumSeq(enabled_rates(last.sample.enabled)) = 0
             /\ last.u1 > 0 ) => last.sample.kind = "ZeroDivisionError"
        /\ last.sample.kind \in {"ZeroDivisionError", "AssertionError"} =>
                (last.outcome = "raised" /\ last.post = last.pre)
    /\ (pc \in {"loop", "returned"} /\ iters >= 1) => last.outcome # "raised"
    /\ pc = "raised" =>
        /\ last.op = "step" /\ last.outcome = "raised"
        /\ tokens = last.pre
        /\ ~broke

\* C24: run_simulation raised the ZeroDivisionError of a step in a marking
\* whose enabled transitions all have rate 0, after logging one row.
C24_Witness ==
    /\ pc = "raised"
    /\ Rows(log) = 1
    /\ last.sample.kind = "ZeroDivisionError"
    /\ last.sample.enabled # <<>>
    /\ tokens = last.pre


(* ------------------------------- C25 ---------------------------------- *)

\* The positions of the candidate list that hold a rate of 0.
ZeroRatePositions(enabled) == {i \in DOMAIN enabled : enabled[i].rate = 0}

\* C25: when at least one enabled transition has a positive rate, the
\* transition returned by sample_next_transition (called directly or by
\* step) has a positive current rate, wherever the transitions of rate 0
\* stand in the candidate list and whatever the second draw is.
C25_NeverReturnsZeroRate ==
    ( /\ last.op \in {"sample", "step"}
      /\ last.sample.kind = "ok"
      /\ \E i \in DOMAIN last.sample.enabled : last.sample.enabled[i].rate > 0 )
    => \A i \in DOMAIN last.sample.enabled :
            last.sample.enabled[i].name = last.sample.name
                => last.sample.enabled[i].rate > 0

\* C25: a sample returned the third of three candidates, the second of
\* which has rate 0 and the others a positive rate.
C25_Witness ==
    /\ last.op = "sample"
    /\ last.sample.kind = "ok"
    /\ Len(last.sample.enabled) = 3
    /\ ZeroRatePositions(last.sample.enabled) = {2}
    /\ last.sample.name = last.sample.enabled[3].name


(* ------------------------------- C28 ---------------------------------- *)

\* Every box index read or written so far is one of 0..num_timeboxes-1.
TouchedInsideGrid ==
    fn = "aggregate_in_timeboxes" =>
        /\ result.touched \subseteq 0..(args.num_timeboxes - 1)
        /\ result.pc # "IndexError"

\* The call has returned its output.
AggReturned == fn = "aggregate_in_timeboxes" /\ result.pc = "returned"

\* C28: for num_timeboxes >= 1 and ascending non-negative timestamps (none,
\* some, or some past the grid) aggregate_in_timeboxes reads and writes box
\* indices in 0..num_timeboxes-1 only, and every call returns.
C28_BoxIndicesInRangeAndTerminates ==
    []TouchedInsideGrid /\ <>AggReturned

\* C28: a call on three boxes with a timestamp past the grid returned from
\* inside the loop, having touched the boxes 0, 1 and 2.
C28_Witness ==
    /\ AggReturned
    /\ args.num_timeboxes = 3
    /\ result.i < Len(args.timestamps)
    /\ args.timestamps[result.i + 1] >= 3 * args.timebox_size
    /\ result.touched = {0, 1, 2}


(* ------------------------------- C26 ---------------------------------- *)

\* The measurements (by index) with a timestamp at or past the end of the
\* last box.
PastGrid(a) ==
    {k \in DOMAIN a.timestamps :
        a.timestamps[k] >= a.num_timeboxes * a.timebox_size}

\* Box i of the result is resolved: the mean of its measurements, or the
\* value carried forward from the box before it (0 for the first box).
Resolved(a, r, i) ==
    IF InBox(a, i) # {} THEN r[i + 1] = MeanOfBox(a, i)
    ELSE IF i = 0 THEN r[1] = FracOfInt(0)
    ELSE r[i + 1] = r[i]

\* C26: when some timestamp is at or past num_timeboxes * timebox_size, the
\* first such measurement and all after it have no influence: the output is
\* that of the call on the measurements before it, and the same whatever
\* values those measurements have; and every one of the num_timeboxes
\* values returned is a box mean or a carried-forward value.
C26_StopsAtFirstMeasurementPastGrid ==
    (Aggregated /\ PastGrid(args) # {}) =>
        LET first == CHOOSE k \in PastGrid(args) : \A j \in PastGrid(args) : k <= j
        IN  /\ result = aggregate_in_timeboxes(
                            SubSeq(args.timestamps, 1, first - 1),
                            SubSeq(args.measurements, 1, first - 1),
                            args.num_timeboxes, args.timebox_size)
            /\ \A ms \in SeqsOfLen(MeasurementValues, Len(args.measurements)) :
                    SubSeq(ms, 1, first - 1) = SubSeq(args.measurements, 1, first - 1)
                        => result = aggregate_in_timeboxes(
                                        args.timestamps, ms,
                                        args.num_timeboxes, args.timebox_size)
            /\ Len(result) = args.num_timeboxes
            /\ \A i \in 0..(args.num_timeboxes - 1) : Resolved(args, result, i)

\* C26: a call on two boxes whose second box holds two measurements of
\* mean 2 and whose last measurement lies past the grid.
C26_Witness ==
    /\ Aggregated
    /\ args.num_timeboxes = 2
    /\ PastGrid(args) = {Len(args.timestamps)}
    /\ Cardinality(InBox(args, 1)) = 2
    /\ result[2] = <<2, 1>>
    /\ args.measurements[Len(args.measurements)] = 3

(* ------------------------------- C29 ---------------------------------- *)

\* The fraction f lies between the least and the greatest of the values ms.
WithinRange(f, ms) ==
    /\ \E k \in DOMAIN ms : ms[k] * f[2] <= f[1]
    /\ \E k \in DOMAIN ms : f[1] <= ms[k] * f[2]

WithAncestors(d) ==
    {[d EXCEPT !.names = SubSeq(@, 1, k)] : k \in 1..Len(d.names)}

\* The last call of gen_directories returned.
GenReturned ==
    fn = "gen_directories" /\ result.raised[Len(result.raised)] = "none"

\* C27: when gen_directories(path) has returned, path and every directory
\* above it exist, the directories that existed before the call are all
\* still there and nothing but path and its ancestors was created; and a
\* second call returns too and changes nothing.
C27_CreatesPathAndAncestorsIdempotent ==
    GenReturned =>
        /\ WithAncestors(Directory(args.path)) \subseteq result.dirs
        /\ result.before \subseteq result.dirs
        /\ result.dirs \subseteq result.before \cup WithAncestors(Directory(args.path))
        /\ gen_directories(args.path, result.dirs) =
                [dirs |-> result.dirs, raised |-> "none"]
        /\ (Len(result.raised) = 2 /\ result.raised[1] = "none") =>
                result.dirs = result.before

\* C27: gen_directories("a/b") has returned where only "b" existed; "a"
\* and "a/b" were created and "b" is still there.
C27_Witness ==
    /\ GenReturned
    /\ args.path = <<"a", "/", "b">>
    /\ Len(result.raised) = 1
    /\ result.before = { Dir(FALSE, << <<"b">> >>) }
    /\ result.dirs = { Dir(FALSE, << <<"b">> >>), Dir(FALSE, << <<"a">> >>),
                       Dir(FALSE, << <<"a">>, <<"b">> >>) }

=============================================================================
